---- MODULE Spec2Model ----
(***************************************************************************)
(* Side-menu navigation of the servers.com portal UI tests.                *)
(*                                                                         *)
(* The repository holds two implementations of the same navigation:        *)
(*   - the page object SideMenuComponent (navigateTo / findMenuItem),      *)
(*   - the helper functions of utils.ts (navigateToMenuItem /              *)
(*     findMenuElement).                                                   *)
(* Both are modelled; the variable impl says which one a behaviour runs.   *)
(*                                                                         *)
(* Besides the navigation the module holds, each with its own variables    *)
(* and its own specification: the shared session and the serial group of   *)
(* checks that uses it (GroupSpec, SessionSpec), the delete flow of the    *)
(* subscriptions page (DeleteSpec), the two subscriptions tests and the    *)
(* list behind them (CrudSpec), and the menu table with the checks         *)
(* generated from it (MenuSpec).  In each specification the variables of   *)
(* the other parts stay at rest.                                           *)
(*                                                                         *)
(* The browser is the environment.  What a visibility check answers and    *)
(* whether an action times out is chosen when the code asks, so that a     *)
(* behaviour of the model stands for one run against one possible page.    *)
(***************************************************************************)
EXTENDS Integers, Sequences, FiniteSets, TLC

(***************************************************************************)
(* Bounds of the model.                                                    *)
(***************************************************************************)
\* longest list of candidate names handed to navigateTo
MaxNames == 2
\* longest list of sub-entry names handed to navigateTo
MaxSubNames == 2

(***************************************************************************)
(* Program constants.                                                      *)
(***************************************************************************)
BREAKPOINT_MOBILE == 768
BREAKPOINT_DESKTOP_SMALL == 1200
DEFAULT_WIDTH == 1920

(***************************************************************************)
(* Inputs.                                                                 *)
(***************************************************************************)
MenuNameSet == {"n1", "n2"}
SubNameSet == {"s1", "s2"}
Impls == {"SideMenuComponent", "utils"}

\* page.viewportSize(): null, or a size of which only the width matters
ViewportSizes ==
    {[hasSize |-> FALSE, width |-> 0]} \cup
    {[hasSize |-> TRUE, width |-> w] : w \in {0, 767, 768, 1199, 1200}}

SeqUpTo(S, n) == UNION {[1..k -> S] : k \in 0..n}

\* The names are interchangeable (the code only compares them with the
\* page), so a list is taken up to renaming: its first name is first.
NameLists(S, first, n) == {s \in SeqUpTo(S, n) : Len(s) > 0 => s[1] = first}

\* subItemNames?: string[]  (absent, or a possibly empty list)
SubArgs ==
    {[present |-> FALSE, names |-> <<>>]} \cup
    {[present |-> TRUE, names |-> s] : s \in NameLists(SubNameSet, "s1", MaxSubNames)}

\* what the browser can answer to locator.isVisible()
Outcomes == {"visible", "hidden", "error"}
\* what the browser can answer to click(), hover(), waitForLoadState()
ActionResults == {"ok", "timeout"}

NoLocator == [kind |-> "none", name |-> "", guaranteed |-> FALSE]

NoCheck == [at |-> "none", outcome |-> "none"]

VARIABLES
    impl,          \* which implementation runs
    viewportSize,  \* page.viewportSize()
    panelOpen,     \* browser: the mobile overlay panel is open
    flyoutOpen,    \* browser: an icon-only flyout is open
    view,          \* browser: locator of the last element whose click succeeded
    pc,            \* position in navigateTo
    menuNames,     \* argument menuNames
    subItemNames,  \* argument subItemNames
    viewportType,  \* local viewportType
    probes,        \* the resolver's visibility checks and their answers, in order
    menuLink,      \* local menuLink / menuItemLocator: the resolver's result
    subMenuLink,   \* local subMenuLink
    subVisible,    \* answer of the sub-entry visibility check
    log,           \* actions issued to the browser, in order
    lastCheck,     \* the latest visibility check and the browser's raw answer
    failure        \* error navigateTo ended with

\* the shared session of a serial group of checks and the browser behind it
VARIABLES
    credentials,   \* QA_USER and QA_PASS are both set
    project,       \* testInfo.project: the configuration a new context gets
    session,       \* the SharedSession object of the test file
    openContexts,  \* browser: contexts created and not closed
    openPages,     \* browser: pages created and not closed
    loggedIn,      \* browser: contexts in which the login went through
    numChecks,     \* number of checks (tests) of the group
    checkPc,       \* position of each check of the group
    sideMenuPage,  \* the page the SideMenuComponent of beforeEach holds
    events         \* calls of initSharedSession / closeSharedSession, in order

navVars == <<impl, viewportSize, panelOpen, flyoutOpen, view, pc, menuNames,
             subItemNames, viewportType, probes, menuLink, subMenuLink,
             subVisible, log, lastCheck, failure>>

groupVars == <<credentials, project, session, openContexts, openPages,
               loggedIn, numChecks, checkPc, sideMenuPage, events>>

\* a call of AccountSettingsPage.deleteSubscription and the dialog it drives
VARIABLES
    delPc,              \* position in deleteSubscription
    delLog,             \* steps of deleteSubscription that completed, in order
    now,                \* the clock, in ms
    dialogShownAt,      \* browser: when the confirmation dialog opened
    handlerAttachedAt,  \* browser: when the dialog's submit handler is attached
    dialogSeenAt,       \* when dialog.waitFor returned
    confirmClickedAt,   \* when the confirm click reached the button
    submitResult        \* browser: what the confirm click did

deleteVars == <<delPc, delLog, now, dialogShownAt, handlerAttachedAt,
                dialogSeenAt, confirmClickedAt, submitResult>>

\* a test of 'Account Settings - Subscriptions' and the list it works on
VARIABLES
    crudTest,     \* which of the two tests runs
    recA,         \* data / initialData of the test
    recB,         \* updatedData of the test
    backend,      \* server: the subscriptions of the account
    shown,        \* browser: the subscriptions the page loaded
    onPage,       \* browser: the page shown
    searchTerm,   \* browser: content of the search box
    opened,       \* browser: id of the subscription opened, 0 if none
    checked,      \* browser: the role checkboxes checked on the contact form
    crudLog,      \* what the test did to the list so far, in order
    crudPc,       \* the statement of the test that runs next
    crudFailure   \* the statement the test failed at

crudVars == <<crudTest, recA, recB, backend, shown, onPage, searchTerm,
              opened, checked, crudLog, crudPc, crudFailure>>

\* the menu table and what smoke_menu.spec.ts makes of it at load
VARIABLES
    menuTable,    \* the table generateMenuTestCases reads
    testCases,    \* TEST_CASES
    testTitles,   \* titles of the tests declared, in order
    planned,      \* a check's menuNames and the visibility checks findMenuItem has for them
    menuPc        \* position in the load of smoke_menu.spec.ts

menuVars == <<menuTable, testCases, testTitles, planned, menuPc>>

\* verifyPageScreenshot (src/utils.ts) for one check
VARIABLES
    shotProject,     \* testInfo.project.name
    titlePath,       \* testInfo.titlePath
    snapshotFiles,   \* disk: the image files under screenshots/
    updateSnapshots, \* the runner's update mode (default 'missing')
    shotPc,          \* position in verifyPageScreenshot
    shotLog,         \* steps of verifyPageScreenshot that ended, in order
    shotFailure      \* the error the test is failed with, "none" if none

shotVars == <<shotProject, titlePath, snapshotFiles, updateSnapshots,
              shotPc, shotLog, shotFailure>>

\* what a call of navigateTo leaves alone
extVars == <<groupVars, deleteVars, crudVars, menuVars, shotVars>>

\* what the serial group leaves alone
groupRest == <<navVars, deleteVars, crudVars, menuVars, shotVars>>

\* what deleteSubscription leaves alone
deleteRest == <<navVars, groupVars, crudVars, menuVars, shotVars>>

\* what the subscriptions tests leave alone
crudRest == <<navVars, groupVars, deleteVars, menuVars, shotVars>>

\* what the load of smoke_menu.spec.ts leaves alone
menuRest == <<navVars, groupVars, deleteVars, crudVars, shotVars>>

\* what verifyPageScreenshot leaves alone
shotRest == <<navVars, groupVars, deleteVars, crudVars, menuVars>>

vars == <<navVars, extVars>>

(***************************************************************************)
(* Pure helpers.                                                           *)
(***************************************************************************)
\* SideMenuComponent.getViewportType: viewportSize()?.width ?? 1920
GetViewportType(vs) ==
    LET width == IF vs.hasSize THEN vs.width ELSE DEFAULT_WIDTH
    IN  IF width < BREAKPOINT_MOBILE THEN "mobile"
        ELSE IF width < BREAKPOINT_DESKTOP_SMALL THEN "desktop-small"
        ELSE "desktop-large"

\* utils.getViewportType: viewportSize()?.width || 1920  (0 is falsy)
UtilsGetViewportType(vs) ==
    LET width == IF vs.hasSize /\ vs.width # 0 THEN vs.width ELSE DEFAULT_WIDTH
    IN  IF width < 768 THEN "mobile"
        ELSE IF width < 1200 THEN "desktop-small"
        ELSE "desktop-large"

\* the classifier the running implementation calls
RegimeOf(i, vs) ==
    IF i = "utils" THEN UtilsGetViewportType(vs) ELSE GetViewportType(vs)

IsVisibleThrowing(outcome) ==
    IF outcome = "visible" THEN "true"
    ELSE IF outcome = "error" THEN "throw" ELSE "false"

\* BasePage.isVisible: locator.isVisible().catch(() => false)
IsVisible(outcome) ==
    IF outcome = "visible" THEN "true" ELSE "false"

\* utils.ts: x.isVisible().catch(() => false), written inline at each check
IsVisibleCatch(outcome) ==
    IF outcome = "visible" THEN "true" ELSE "false"

VisibleIn(i, outcome) ==
    IF i = "utils" THEN IsVisibleCatch(outcome) ELSE IsVisible(outcome)

HasSubTruthyOnly(sub) == sub.present

\* subItemNames && subItemNames.length > 0
HasSub(sub) == sub.present /\ Len(sub.names) > 0

\* names[0] ?? ''
FirstOrEmpty(names) == IF Len(names) > 0 THEN names[1] ELSE ""

\* `${names[0]}` inside a template string
FirstInTemplate(names) == IF Len(names) > 0 THEN names[1] ELSE "undefined"

RECURSIVE Flatten(_)
Flatten(ss) == IF ss = <<>> THEN <<>> ELSE Head(ss) \o Flatten(Tail(ss))

Probe(kind, names, i) == [kind |-> kind, idx |-> i, name |-> names[i]]

\* one loop "for (const name of names)" that makes the checks kinds per name
ForEachName(names, kinds) ==
    Flatten([i \in 1..Len(names) |->
                [k \in 1..Len(kinds) |-> Probe(kinds[k], names, i)]])

\* every name at one kind, then every name at the next kind
ForEachKind(names, kinds) ==
    Flatten([k \in 1..Len(kinds) |->
                [i \in 1..Len(names) |-> Probe(kinds[k], names, i)]])

FindMenuItemPlanStepMajor(names, vt) ==
    IF vt = "desktop-small"
    THEN ForEachName(names, <<"liTextIs">>) \o ForEachName(names, <<"liText">>)
    ELSE ForEachKind(names, <<"textExact", "linkExact">>)
         \o ForEachName(names, <<"textPartial">>)

\* SideMenuComponent.findMenuItem: the visibility checks in program order
FindMenuItemPlan(names, vt) ==
    IF vt = "desktop-small"
    THEN ForEachName(names, <<"liTextIs">>) \o ForEachName(names, <<"liText">>)
    ELSE ForEachName(names, <<"textExact", "linkExact">>)
         \o ForEachName(names, <<"textPartial">>)

FindMenuItemFallbackLast(names, vt) ==
    IF vt = "desktop-small"
    THEN [kind |-> "liText", name |-> FirstInTemplate(names), guaranteed |-> FALSE]
    ELSE [kind |-> "textPartial",
          name |-> IF Len(names) > 0 THEN names[Len(names)] ELSE "",
          guaranteed |-> FALSE]

\* SideMenuComponent.findMenuItem: the locator returned when no check succeeded
FindMenuItemFallback(names, vt) ==
    IF vt = "desktop-small"
    THEN [kind |-> "liText", name |-> FirstInTemplate(names), guaranteed |-> FALSE]
    ELSE [kind |-> "textPartial", name |-> FirstOrEmpty(names), guaranteed |-> FALSE]

\* utils.findMenuElement: the visibility checks in program order
FindMenuElementPlan(names, vt, isSubItem) ==
    IF vt = "desktop-small" /\ ~isSubItem
    THEN ForEachName(names, <<"liTextIs">>) \o ForEachName(names, <<"liText">>)
    ELSE ForEachName(names, <<"textExact", "linkExact", "altExact">>)
         \o ForEachName(names, <<"textPartial", "linkPartial">>)

\* utils.findMenuElement: the locator returned when no check succeeded
FindMenuElementFallback(names, vt, isSubItem) ==
    IF vt = "desktop-small" /\ ~isSubItem
    THEN [kind |-> "liText", name |-> FirstInTemplate(names), guaranteed |-> FALSE]
    ELSE [kind |-> "textPartial", name |-> FirstOrEmpty(names), guaranteed |-> FALSE]

\* the resolver of the running implementation (navigateToMenuItem never
\* passes isSubItem = true)
Plan == IF impl = "utils"
        THEN FindMenuElementPlan(menuNames, viewportType, FALSE)
        ELSE FindMenuItemPlan(menuNames, viewportType)

Fallback == IF impl = "utils"
            THEN FindMenuElementFallback(menuNames, viewportType, FALSE)
            ELSE FindMenuItemFallback(menuNames, viewportType)

(***************************************************************************)
(* Control flow of navigateTo / navigateToMenuItem: where each step hands  *)
(* over to.                                                                *)
(***************************************************************************)
\* after openMobileMenu: navigateMobile's if (subItemNames && ...)
AfterOpenMobileMenu(sub) == IF HasSub(sub) THEN "checkSub" ELSE "resolve"

\* where the resolver's caller continues
AfterResolve(vt, sub) ==
    IF vt = "desktop-small" THEN "hoverEntry"
    ELSE IF vt = "desktop-large" /\ HasSub(sub) THEN "checkSub"
    ELSE "scrollEntry"

AfterCheckSubAlwaysClick(vt, visible) ==
    IF vt = "mobile" THEN "resolve"
    ELSE IF vt = "desktop-large" THEN "scrollEntry"
    ELSE "clickEntry"

\* if (!(await this.isVisible(subMenuLink))) { ... }
AfterCheckSub(vt, visible) ==
    IF visible
    THEN (IF vt = "desktop-small" THEN "hoverSub" ELSE "scrollSub")
    ELSE (IF vt = "mobile" THEN "resolve"
          ELSE IF vt = "desktop-large" THEN "scrollEntry"
          ELSE "clickEntry")

\* navigateDesktopSmall after menuItemLocator.hover()
AfterHoverEntry(sub) == IF HasSub(sub) THEN "checkSub" ELSE "clickEntry"

AfterClickEntryNoSubClick(vt, sub) == "waitForLoadState"

AfterClickEntryNoWait(vt, sub) ==
    IF HasSub(sub)
    THEN (IF vt = "desktop-small" THEN "hoverSub" ELSE "scrollSub")
    ELSE "done"

\* after the click of the top-level entry
AfterClickEntry(vt, sub) ==
    IF HasSub(sub)
    THEN (IF vt = "desktop-small" THEN "hoverSub" ELSE "scrollSub")
    ELSE "waitForLoadState"

AfterClickSubNoAnchor(vt) == "waitForLoadState"

\* after subMenuLink.click()
AfterClickSub(vt) ==
    IF vt = "desktop-small" THEN "hoverAnchor" ELSE "waitForLoadState"

\* the load state the implementation waits for
LoadState == IF impl = "utils" THEN "load" ELSE "domcontentloaded"

Act(a, t) == [act |-> a, target |-> t]

Fail(kind) ==
    /\ pc' = "failed"
    /\ failure' = kind

(***************************************************************************)
(* The shared session (utils.ts) and the serial group that uses it         *)
(* (smoke_menu.spec.ts).                                                   *)
(***************************************************************************)
\* longest group of checks
MaxChecks == 3
\* most calls of initSharedSession / closeSharedSession made in any order
MaxCalls == 4

\* a handle that is null
NullHandle == 0

Projects == {"desktop-large", "desktop-small", "mobile"}

\* createSharedSession()
CreateSharedSession ==
    [context |-> NullHandle, page |-> NullHandle, isInitialized |-> FALSE]

\* calls of initSharedSession that got as far as browser.newContext()
Authentications ==
    {k \in 1..Len(events) :
        events[k].op = "init" /\ events[k].outcome \notin {"noop", "noCredentials"}}

ContextsCreated == Cardinality(Authentications)

CloseCalls == Cardinality({k \in 1..Len(events) : events[k].op = "close"})

GetCredentialsUnchecked(creds) == "credentials"

\* getCredentials(): the pair read from the environment, or the throw
GetCredentials(creds) == IF creds THEN "credentials" ELSE "throws"

InitOutcomesNoGuard(s, creds) ==
    IF GetCredentials(creds) = "throws" THEN {"noCredentials"}
    ELSE {"ok", "loginFailed", "dashboardFailed"}

\* how a call of initSharedSession can end: the early return on the flag,
\* the throw of getCredentials(), a throw of login(), a throw of
\* waitForDashboardLoad(), or the normal end
InitOutcomes(s, creds) ==
    IF s.isInitialized THEN {"noop"}
    ELSE IF GetCredentials(creds) = "throws" THEN {"noCredentials"}
    ELSE {"ok", "loginFailed", "dashboardFailed"}

IsInitializedAtNewContext(o) == TRUE

\* session.isInitialized after a call that went past getCredentials(): the
\* assignment is the last statement
IsInitializedAfter(o) == (o = "ok")

\* initSharedSession(session, browser, testInfo) ending with outcome o
InitSharedSession(o) ==
    LET id == ContextsCreated + 1
    IN  /\ events' = Append(events, [op |-> "init", outcome |-> o,
                                     project |-> project])
        /\ IF o \in {"noop", "noCredentials"}
           THEN UNCHANGED <<session, openContexts, openPages, loggedIn>>
           ELSE /\ session' = [context |-> id, page |-> id,
                               isInitialized |-> IsInitializedAfter(o)]
                /\ openContexts' = openContexts \cup {id}
                /\ openPages' = openPages \cup {id}
                /\ loggedIn' = IF o = "loginFailed" THEN loggedIn
                               ELSE loggedIn \cup {id}

ClosedSessionFlagKept(s) == s

\* the session object after closeSharedSession
ClosedSession(s) ==
    IF s.isInitialized THEN [s EXCEPT !.isInitialized = FALSE] ELSE s

\* closeSharedSession(session)
CloseSharedSession ==
    /\ events' = Append(events,
                        [op |-> "close",
                         outcome |-> IF session.isInitialized THEN "closed"
                                     ELSE "noop"])
    /\ session' = ClosedSession(session)
    /\ openPages' = IF session.isInitialized
                    THEN openPages \ {session.page} ELSE openPages
    /\ openContexts' = IF session.isInitialized
                       THEN openContexts \ {session.context} ELSE openContexts
    /\ UNCHANGED loggedIn

\* no group is running
GroupParked ==
    /\ credentials = TRUE
    /\ project = "desktop-large"
    /\ session = CreateSharedSession
    /\ openContexts = {}
    /\ openPages = {}
    /\ loggedIn = {}
    /\ numChecks = 0
    /\ checkPc = <<>>
    /\ sideMenuPage = NullHandle
    /\ events = <<>>

(***************************************************************************)
(* AccountSettingsPage.deleteSubscription and the confirmation dialog.     *)
(***************************************************************************)
\* longest time one awaited browser step takes, in quarters of a second
MaxLatency == 2
\* longest time the dialog takes to attach its submit handler, in quarters
\* of a second
MaxAttach == 3

\* page.waitForTimeout(500)
SETTLE_MS == 500

Latencies == {250 * k : k \in 0..MaxLatency}
AttachDelays == {250 * k : k \in 0..MaxAttach}

\* a moment that has not come yet
Never == -1

\* no call of deleteSubscription is in progress
DeleteParked ==
    /\ delPc = "idle"
    /\ delLog = <<>>
    /\ now = 0
    /\ dialogShownAt = Never
    /\ handlerAttachedAt = Never
    /\ dialogSeenAt = Never
    /\ confirmClickedAt = Never
    /\ submitResult = "none"

(***************************************************************************)
(* The subscriptions of the account: the tests of 'Account Settings -      *)
(* Subscriptions', the page objects they drive and the list behind them.   *)
(***************************************************************************)
\* most subscriptions the account holds before a test starts
MaxLeftover == 1

\* faker.person.firstName() / lastName(): draws from finite name lists
FirstNames == {"Ann", "Bob"}
LastNames == {"Kim", "Lee"}

\* the role checkboxes of the contact form
AllRoles == {"Technical", "Billing", "Abuse", "Emergency"}

\* faker.helpers.arrayElements(allRoles, faker.number.int({ min: 1, max: 2 }))
RoleSets == {roles \in SUBSET AllRoles : Cardinality(roles) \in 1..2}

\* generateTestContactData(): the fields the tests use
GeneratedData ==
    [firstName : FirstNames, lastName : LastNames, jobRoles : RoleSets]

NoData == [firstName |-> "", lastName |-> "", jobRoles |-> {}]

\* id of the subscription the test creates
NewId == MaxLeftover + 1

\* the lists of subscriptions an account can hold when a test starts:
\* contacts of the account and what earlier runs left behind
Leftovers ==
    UNION {{{[id |-> i, firstName |-> f[i].firstName,
              lastName |-> f[i].lastName, jobRoles |-> {}] : i \in 1..k} :
               f \in [1..k -> [firstName : FirstNames, lastName : LastNames]]} :
               k \in 0..MaxLeftover}

FillFormReplacing(before, data) == data.jobRoles

\* NewContactPage.fillForm(data), the role checkboxes: check() for every
\* role of data.jobRoles, no checkbox is unchecked
FillForm(before, data) == before \cup data.jobRoles

ReloadPageCached(list, server) == list

\* BasePage.reloadPage(): page.reload makes the page load the list anew
ReloadPage(list, server) == server

\* AccountSettingsPage.getFullName(data)
GetFullName(data) == data.firstName \o " " \o data.lastName

\* the client-side search of the list: a term matches the first name or the
\* last name of a row, never the two together
Matches(term, r) == term = "" \/ term = r.firstName \/ term = r.lastName

\* the rows a list shows under a search term
Rows(list, term) == {r \in list : Matches(term, r)}

\* the rows whose link is named name
RowsNamed(list, term, name) ==
    {r \in Rows(list, term) : GetFullName(r) = name}

CreateDeleteSteps ==
    <<"goToCreate", "clickCreate", "submitCreate", "goToVerify",
      "verifyCreated", "delete", "refreshDeleted", "verifyDeleted", "done">>

EditDeleteSteps ==
    <<"goToCreate", "clickCreate", "submitCreate", "goToEdit",
      "openSubscription", "clickEdit", "submitEdit", "refreshEdited",
      "verifyEditedGone", "verifyEdited", "delete", "refreshDeleted",
      "verifyDeleted", "done">>

Steps(t) == IF t = "createDelete" THEN CreateDeleteSteps ELSE EditDeleteSteps

\* the statement of test t that follows statement p
AfterStep(t, p) ==
    LET s == Steps(t)
    IN  s[(CHOOSE i \in 1..(Len(s) - 1) : s[i] = p) + 1]

\* no test of the subscriptions is running
CrudParked ==
    /\ crudTest = "none"
    /\ recA = NoData
    /\ recB = NoData
    /\ backend = {}
    /\ shown = {}
    /\ onPage = "none"
    /\ searchTerm = ""
    /\ opened = 0
    /\ checked = {}
    /\ crudLog = <<>>
    /\ crudPc = "idle"
    /\ crudFailure = "none"

(***************************************************************************)
(* The menu table and the checks generated from it (menu-data.ts).         *)
(***************************************************************************)
\* longest menu table besides MENU_ITEMS
MaxItems == 2
\* longest list of sub-entries in such a table
MaxSubItems == 2

\* an optional property: <<>> when it is undefined, <<v>> when it is v
Undefined == <<>>
Some(v) == <<v>>

\* the value is defined and not the empty string
Truthy(opt) == opt # Undefined /\ opt[1] # ""

SubItem(d, m) == [desktop |-> d, mobile |-> m]

MenuItem(n, m, subs) == [name |-> n, mobileName |-> m, subItems |-> subs]

Only(names) == [k \in 1..Len(names) |-> SubItem(names[k], Undefined)]

MENU_ITEMS ==
    << MenuItem("Dedicated Servers", Undefined, Some(Only(<<"Manage", "Order">>))),
       MenuItem("Cloud Servers", Undefined,
                Some(<< SubItem("Create & Manage", Some("Create & Manage")),
                        SubItem("Snapshots & Backups", Some("Snapshots")),
                        SubItem("Images", Undefined),
                        SubItem("Volumes", Undefined) >>)),
       MenuItem("Cloud Storage", Undefined, Undefined),
       MenuItem("Kubernetes", Undefined, Undefined),
       MenuItem("Load Balancers", Undefined, Undefined),
       MenuItem("Firewalls", Undefined, Undefined),
       MenuItem("Networks", Undefined,
                Some(Only(<<"Direct Connect", "L2 Segments", "DNS", "VPN access">>))),
       MenuItem("Private Racks", Undefined, Undefined),
       MenuItem("Monitoring", Undefined,
                Some(Only(<<"Healthchecks", "Notifications">>))),
       MenuItem("SSL certificates", Some("SSL"), Undefined),
       MenuItem("Account settings", Some("Account"), Undefined),
       MenuItem("Identity and Access", Some("Identity"),
                Some(Only(<<"SSH & GPG keys", "API tokens">>))),
       MenuItem("Billing", Undefined,
                Some(Only(<<"Orders", "Invoices", "Group invoices",
                            "Account statement", "Payment details",
                            "Top up balance">>))),
       MenuItem("Reports", Undefined,
                Some(Only(<<"Cloud Servers", "Cloud Storage">>))),
       MenuItem("Requests", Undefined, Undefined) >>

\* the sub-entries and entries other tables are made of
SubItemSet == {SubItem("x", Undefined), SubItem("y", Some("k"))}

MenuItemSet ==
    {MenuItem(e[1], e[2], subs) :
        e \in {<<"A", Undefined>>, <<"B", Some("m")>>},
        subs \in {Undefined} \cup {Some(l) : l \in SeqUpTo(SubItemSet, MaxSubItems)}}

\* the tables generateMenuTestCases is run on: MENU_ITEMS and small tables
MenuTables == {MENU_ITEMS} \cup SeqUpTo(MenuItemSet, MaxItems)

\* the names of an entry or sub-entry: the first, then the mobile one if any
NamesOfMobileFirst(first, mobile) ==
    (IF Truthy(mobile) THEN <<mobile[1]>> ELSE <<>>) \o <<first>>

NamesOf(first, mobile) ==
    <<first>> \o (IF Truthy(mobile) THEN <<mobile[1]>> ELSE <<>>)

TestNameOfSubOnly(name, desktop) == desktop

\* `${menuItem.name} > ${subItem.desktop}`
TestNameOf(name, desktop) == name \o " > " \o desktop

MenuTestCasesOfFirstSubOnly(menuItem) ==
    LET names == NamesOf(menuItem.name, menuItem.mobileName)
    IN  IF menuItem.subItems # Undefined /\ Len(menuItem.subItems[1]) > 0
        THEN LET subItems == menuItem.subItems[1]
             IN  << [menuNames |-> names,
                     subItemNames |->
                         [present |-> TRUE,
                          names |-> NamesOf(subItems[1].desktop, subItems[1].mobile)],
                     testName |-> TestNameOf(menuItem.name, subItems[1].desktop),
                     isLastSubItem |-> Some(1 = Len(subItems))] >>
        ELSE << [menuNames |-> names,
                 subItemNames |-> [present |-> FALSE, names |-> <<>>],
                 testName |-> menuItem.name,
                 isLastSubItem |-> Undefined] >>

\* the body of the loop of generateMenuTestCases: the checks of one entry
MenuTestCasesOf(menuItem) ==
    LET names == NamesOf(menuItem.name, menuItem.mobileName)
    IN  IF menuItem.subItems # Undefined /\ Len(menuItem.subItems[1]) > 0
        THEN LET subItems == menuItem.subItems[1]
             IN  [i \in 1..Len(subItems) |->
                    [menuNames |-> names,
                     subItemNames |->
                         [present |-> TRUE,
                          names |-> NamesOf(subItems[i].desktop, subItems[i].mobile)],
                     testName |-> TestNameOf(menuItem.name, subItems[i].desktop),
                     isLastSubItem |-> Some(i = Len(subItems))]]
        ELSE << [menuNames |-> names,
                 subItemNames |-> [present |-> FALSE, names |-> <<>>],
                 testName |-> menuItem.name,
                 isLastSubItem |-> Undefined] >>

\* generateMenuTestCases() over the table
GenerateMenuTestCases(table) ==
    Flatten([i \in 1..Len(table) |-> MenuTestCasesOf(table[i])])

\* the title smoke_menu.spec.ts gives the test of a check
TestTitle(testCase) == "should navigate to " \o testCase.testName

\* no check has been picked
NoPlan == [menuNames |-> <<>>, regime |-> "none", probes |-> <<>>]

\* no table is being processed
MenuParked ==
    /\ menuTable = <<>>
    /\ testCases = <<>>
    /\ testTitles = <<>>
    /\ planned = NoPlan
    /\ menuPc = "idle"

(***************************************************************************)
(* verifyPageScreenshot: file names and the baseline store.                *)
(* A file name is a sequence of tokens (words and separator characters).   *)
(***************************************************************************)
\* BASELINE_WAIT_MS || '5000'
BASELINE_WAIT_MS == 5000

\* titlePath[0]: the test file
FileTitle == <<"smoke_menu", ".", "spec", ".", "ts">>

\* test.describe('Smoke Tests - Main Menu Navigation')
DescribeTitle ==
    <<"Smoke", " ", "Tests", " ", "-", " ", "Main", " ", "Menu", " ", "Navigation">>

\* `should navigate to ${testCase.testName}` for 'Requests' and for
\* 'Reports > Cloud Servers'
ShotTitles ==
    { <<"should", " ", "navigate", " ", "to", " ", "Requests">>,
      <<"should", " ", "navigate", " ", "to", " ", "Reports", " ", ">", " ",
        "Cloud", " ", "Servers">> }

\* testInfo.titlePath: the file, the describe blocks, the test
TitlePaths == {<<FileTitle, DescribeTitle, t>> : t \in ShotTitles}

\* Array.prototype.join
RECURSIVE Join(_, _)
Join(parts, sep) ==
    IF parts = <<>> THEN <<>>
    ELSE IF Len(parts) = 1 THEN parts[1]
    ELSE parts[1] \o <<sep>> \o Join(Tail(parts), sep)

\* characters a file-system friendly name does not keep ('-' is kept)
Unfriendly == {" ", ">", "&", "."}

\* every run of unfriendly characters becomes one '-'
RECURSIVE Sanitize(_)
Sanitize(tokens) ==
    IF tokens = <<>> THEN <<>>
    ELSE IF Head(tokens) \in Unfriendly
         THEN IF Len(tokens) > 1 /\ tokens[2] \in Unfriendly
              THEN Sanitize(Tail(tokens))
              ELSE <<"-">> \o Sanitize(Tail(tokens))
         ELSE <<Head(tokens)>> \o Sanitize(Tail(tokens))

\* verifyPageScreenshot: the path handed to fs.existsSync
SnapshotPath(projectName, tp) ==
    <<"screenshots", projectName, Join(tp, "-") \o <<".png">>>>

\* snapshotPathTemplate '{snapshotDir}/{projectName}/{testName}{ext}': the
\* file toHaveScreenshot() reads and writes; {testName} is the title path
\* without the file, joined by spaces, made file-system friendly
BaselinePath(projectName, tp) ==
    <<"screenshots", projectName,
      Sanitize(Join(Tail(tp), " ")) \o <<".png">>>>

\* the runner's --update-snapshots modes
UpdateModes == {"missing", "all", "none"}

\* no screenshot is being verified
ShotParked ==
    /\ shotProject = "desktop-large"
    /\ titlePath = <<>>
    /\ snapshotFiles = {}
    /\ updateSnapshots = "missing"
    /\ shotPc = "idle"
    /\ shotLog = <<>>
    /\ shotFailure = "none"

\* every family but the navigation is at rest
ExtParked == GroupParked /\ DeleteParked /\ CrudParked /\ MenuParked /\ ShotParked

(***************************************************************************)
(* Initial state: a page in some state, no call in progress.               *)
(***************************************************************************)
Init ==
    /\ impl \in Impls
    /\ viewportSize \in ViewportSizes
    \* the overlay panel exists in the compact layout only, the flyout in
    \* the icon-only layout only
    /\ panelOpen \in BOOLEAN
    /\ flyoutOpen \in BOOLEAN
    /\ panelOpen => RegimeOf(impl, viewportSize) = "mobile"
    /\ flyoutOpen => RegimeOf(impl, viewportSize) = "desktop-small"
    /\ view = NoLocator
    /\ pc = "idle"
    /\ menuNames = <<>>
    /\ subItemNames = [present |-> FALSE, names |-> <<>>]
    /\ viewportType = "none"
    /\ probes = <<>>
    /\ menuLink = NoLocator
    /\ subMenuLink = NoLocator
    /\ subVisible = "unchecked"
    /\ log = <<>>
    /\ lastCheck = NoCheck
    /\ failure = "none"
    /\ ExtParked

(***************************************************************************)
(* navigateTo(menuNames, subItemNames): entry and dispatch on the regime.  *)
(***************************************************************************)
NavigateTo ==
    /\ pc = "idle"
    /\ UNCHANGED extVars
    /\ \E mn \in NameLists(MenuNameSet, "n1", MaxNames), sub \in SubArgs :
        LET vt == RegimeOf(impl, viewportSize)
        IN  /\ menuNames' = mn
            /\ subItemNames' = sub
            /\ viewportType' = vt
            /\ pc' = IF vt = "mobile" THEN "openMobileMenu" ELSE "resolve"
    /\ UNCHANGED <<impl, viewportSize, panelOpen, flyoutOpen, view, probes,
                   menuLink, subMenuLink, subVisible, log, lastCheck, failure>>

\* remember where the latest isVisible() was called and what the browser
\* answered before the catch
NoteCheck(where, o) == lastCheck' = [at |-> where, outcome |-> o]

(***************************************************************************)
(* openMobileMenu: tap the toggle button if that button is visible.        *)
(***************************************************************************)
OpenMobileMenu ==
    /\ pc = "openMobileMenu"
    /\ UNCHANGED extVars
    /\ \E o \in Outcomes :
        /\ NoteCheck("openMobileMenu", o)
        /\ IF VisibleIn(impl, o) = "true"
           THEN \E r \in ActionResults :
                   IF r = "ok"
                   THEN /\ log' = Append(log, Act("click", "toggle"))
                        /\ panelOpen' = ~panelOpen
                        /\ pc' = AfterOpenMobileMenu(subItemNames)
                        /\ UNCHANGED failure
                   ELSE /\ Fail("TimeoutError")
                        /\ UNCHANGED <<log, panelOpen>>
           ELSE IF VisibleIn(impl, o) = "false"
           THEN /\ pc' = AfterOpenMobileMenu(subItemNames)
                /\ UNCHANGED <<log, panelOpen, failure>>
           ELSE /\ Fail("Error")
                /\ UNCHANGED <<log, panelOpen>>
    /\ UNCHANGED <<impl, viewportSize, flyoutOpen, view, menuNames,
                   subItemNames, viewportType, probes, menuLink, subMenuLink,
                   subVisible>>

(***************************************************************************)
(* The resolver, one visibility check per step.                            *)
(***************************************************************************)
\* the locator returned for a check that answered visible; for an image
\* found by alt text utils.findMenuElement returns the nearest enclosing
\* link when parentLink.count() > 0 and the image otherwise
Resolved(p, parentCount) ==
    IF p.kind = "altExact" /\ parentCount > 0
    THEN [kind |-> "altParentLink", name |-> p.name, guaranteed |-> TRUE]
    ELSE [kind |-> p.kind, name |-> p.name, guaranteed |-> TRUE]

FindMenuProbe ==
    /\ pc = "resolve"
    /\ UNCHANGED extVars
    /\ Len(probes) < Len(Plan)
    /\ LET p == Plan[Len(probes) + 1] IN
       \E o \in Outcomes :
        /\ NoteCheck("findMenuItem", o)
        /\ probes' = Append(probes, [kind |-> p.kind, idx |-> p.idx,
                                     name |-> p.name,
                                     visible |-> (VisibleIn(impl, o) = "true")])
        /\ IF VisibleIn(impl, o) = "true"
           THEN /\ \E c \in IF p.kind = "altExact" THEN {0, 1} ELSE {1} :
                       menuLink' = Resolved(p, c)
                /\ pc' = AfterResolve(viewportType, subItemNames)
                /\ UNCHANGED failure
           ELSE IF VisibleIn(impl, o) = "false"
           THEN UNCHANGED <<menuLink, pc, failure>>
           ELSE /\ Fail("Error")
                /\ UNCHANGED menuLink
    /\ UNCHANGED <<impl, viewportSize, panelOpen, flyoutOpen, view,
                   menuNames, subItemNames, viewportType, subMenuLink,
                   subVisible, log>>

\* every check answered "not visible": the last return statement
FindMenuFallback ==
    /\ pc = "resolve"
    /\ UNCHANGED extVars
    /\ Len(probes) = Len(Plan)
    /\ menuLink' = Fallback
    /\ pc' = AfterResolve(viewportType, subItemNames)
    /\ UNCHANGED <<impl, viewportSize, panelOpen, flyoutOpen, view,
                   menuNames, subItemNames, viewportType, probes, subMenuLink,
                   subVisible, log, lastCheck, failure>>

(***************************************************************************)
(* The sub-entry visibility check.                                         *)
(***************************************************************************)
\* subMenuLink: exact text of subItemNames[0] inside the entry's <ul>; the
\* scope is menuItemLi (built from menuNames[0]) on mobile and the resolved
\* entry elsewhere
SubMenuLocator ==
    [kind |-> IF viewportType = "mobile" THEN "subInMenuItemLi" ELSE "subInEntry",
     name |-> FirstOrEmpty(subItemNames.names),
     guaranteed |-> FALSE]

CheckSub ==
    /\ pc = "checkSub"
    /\ UNCHANGED extVars
    /\ subMenuLink' = SubMenuLocator
    /\ \E o \in Outcomes :
        \* an icon-only flyout that is closed shows no sub-entry
        /\ (viewportType = "desktop-small" /\ ~flyoutOpen) => o # "visible"
        /\ NoteCheck("subMenuLink", o)
        /\ IF VisibleIn(impl, o) = "throw"
           THEN /\ Fail("Error")
                /\ UNCHANGED subVisible
           ELSE /\ subVisible' = VisibleIn(impl, o)
                /\ pc' = AfterCheckSub(viewportType, VisibleIn(impl, o) = "true")
                /\ UNCHANGED failure
    /\ UNCHANGED <<impl, viewportSize, panelOpen, flyoutOpen, view,
                   menuNames, subItemNames, viewportType, probes, menuLink, log>>

(***************************************************************************)
(* Actions on the top-level entry.                                         *)
(***************************************************************************)
\* scrollIntoView(menuLink): failures are swallowed
ScrollEntry ==
    /\ pc = "scrollEntry"
    /\ UNCHANGED extVars
    /\ log' = Append(log, Act("scroll", "entry"))
    /\ pc' = "clickEntry"
    /\ UNCHANGED <<impl, viewportSize, panelOpen, flyoutOpen, view,
                   menuNames, subItemNames, viewportType, probes, menuLink,
                   subMenuLink, subVisible, lastCheck, failure>>

\* menuItemLocator.hover() in the icon-only regime; the hover opens the
\* flyout, but not reliably
HoverEntry ==
    /\ pc = "hoverEntry"
    /\ UNCHANGED extVars
    /\ \E r \in ActionResults :
        IF r = "ok"
        THEN /\ log' = Append(log, Act("hover", "entry"))
             /\ \E o \in BOOLEAN : flyoutOpen' = (flyoutOpen \/ o)
             /\ pc' = AfterHoverEntry(subItemNames)
             /\ UNCHANGED failure
        ELSE /\ Fail("TimeoutError")
             /\ UNCHANGED <<log, flyoutOpen>>
    /\ UNCHANGED <<impl, viewportSize, panelOpen, view, menuNames,
                   subItemNames, viewportType, probes, menuLink, subMenuLink,
                   subVisible, lastCheck>>

\* menuLink.click() / menuItemLocator.click()
ClickEntry ==
    /\ pc = "clickEntry"
    /\ UNCHANGED extVars
    /\ \E r \in ActionResults :
        IF r = "ok"
        THEN /\ log' = Append(log, Act("click", "entry"))
             /\ view' = menuLink
             /\ flyoutOpen' = IF viewportType = "desktop-small" /\ HasSub(subItemNames)
                              THEN TRUE ELSE flyoutOpen
             /\ pc' = AfterClickEntry(viewportType, subItemNames)
             /\ UNCHANGED failure
        ELSE /\ Fail("TimeoutError")
             /\ UNCHANGED <<log, view, flyoutOpen>>
    /\ UNCHANGED <<impl, viewportSize, panelOpen, menuNames, subItemNames,
                   viewportType, probes, menuLink, subMenuLink, subVisible,
                   lastCheck>>

(***************************************************************************)
(* Actions on the sub-entry.                                               *)
(***************************************************************************)
\* scrollIntoView(subMenuLink): failures are swallowed
ScrollSub ==
    /\ pc = "scrollSub"
    /\ UNCHANGED extVars
    /\ log' = Append(log, Act("scroll", "sub"))
    /\ pc' = "clickSub"
    /\ UNCHANGED <<impl, viewportSize, panelOpen, flyoutOpen, view,
                   menuNames, subItemNames, viewportType, probes, menuLink,
                   subMenuLink, subVisible, lastCheck, failure>>

\* subMenuLink.hover().catch(() => {}): a failed hover is swallowed
HoverSub ==
    /\ pc = "hoverSub"
    /\ UNCHANGED extVars
    /\ \E r \in ActionResults :
        log' = IF r = "ok" THEN Append(log, Act("hover", "sub")) ELSE log
    /\ pc' = "clickSub"
    /\ UNCHANGED <<impl, viewportSize, panelOpen, flyoutOpen, view,
                   menuNames, subItemNames, viewportType, probes, menuLink,
                   subMenuLink, subVisible, lastCheck, failure>>

\* subMenuLink.click()
ClickSub ==
    /\ pc = "clickSub"
    /\ UNCHANGED extVars
    /\ \E r \in ActionResults :
        IF r = "ok"
        THEN /\ log' = Append(log, Act("click", "sub"))
             /\ view' = subMenuLink
             /\ pc' = AfterClickSub(viewportType)
             /\ UNCHANGED failure
        ELSE /\ Fail("TimeoutError")
             /\ UNCHANGED <<log, view>>
    /\ UNCHANGED <<impl, viewportSize, panelOpen, flyoutOpen, menuNames,
                   subItemNames, viewportType, probes, menuLink, subMenuLink,
                   subVisible, lastCheck>>

\* dashboardLink.hover(): moving the pointer to the anchor closes the flyout
HoverAnchor ==
    /\ pc = "hoverAnchor"
    /\ UNCHANGED extVars
    /\ \E r \in ActionResults :
        IF r = "ok"
        THEN /\ log' = Append(log, Act("hover", "anchor"))
             /\ flyoutOpen' = FALSE
             /\ pc' = "waitForLoadState"
             /\ UNCHANGED failure
        ELSE /\ Fail("TimeoutError")
             /\ UNCHANGED <<log, flyoutOpen>>
    /\ UNCHANGED <<impl, viewportSize, panelOpen, view, menuNames,
                   subItemNames, viewportType, probes, menuLink, subMenuLink,
                   subVisible, lastCheck>>

(***************************************************************************)
(* page.waitForLoadState(...): the last statement of navigateTo.           *)
(***************************************************************************)
WaitForLoadState ==
    /\ pc = "waitForLoadState"
    /\ UNCHANGED extVars
    /\ \E r \in ActionResults :
        IF r = "ok"
        THEN /\ log' = Append(log, Act("waitForLoadState", LoadState))
             /\ pc' = "done"
             /\ UNCHANGED failure
        ELSE /\ Fail("TimeoutError")
             /\ UNCHANGED log
    /\ UNCHANGED <<impl, viewportSize, panelOpen, flyoutOpen, view,
                   menuNames, subItemNames, viewportType, probes, menuLink,
                   subMenuLink, subVisible, lastCheck>>

Next ==
    \/ NavigateTo
    \/ OpenMobileMenu
    \/ FindMenuProbe
    \/ FindMenuFallback
    \/ CheckSub
    \/ ScrollEntry
    \/ HoverEntry
    \/ ClickEntry
    \/ ScrollSub
    \/ HoverSub
    \/ ClickSub
    \/ HoverAnchor
    \/ WaitForLoadState

Spec == Init /\ [][Next]_vars

\* every step of navigateTo is a bounded wait of the browser: it answers
FairSpec == Spec /\ WF_vars(Next)

(***************************************************************************)
(* The navigation at rest: the state it has in the specifications of the   *)
(* other parts of the suite.                                               *)
(***************************************************************************)
\* no call of navigateTo is modelled step by step
NavParked ==
    /\ impl = "SideMenuComponent"
    /\ viewportSize = [hasSize |-> FALSE, width |-> 0]
    /\ panelOpen = FALSE
    /\ flyoutOpen = FALSE
    /\ view = NoLocator
    /\ pc = "idle"
    /\ menuNames = <<>>
    /\ subItemNames = [present |-> FALSE, names |-> <<>>]
    /\ viewportType = "none"
    /\ probes = <<>>
    /\ menuLink = NoLocator
    /\ subMenuLink = NoLocator
    /\ subVisible = "unchecked"
    /\ log = <<>>
    /\ lastCheck = NoCheck
    /\ failure = "none"

(***************************************************************************)
(* AccountSettingsPage.deleteSubscription(fullName), step by step.  Time   *)
(* is in milliseconds; every awaited step takes some time.                 *)
(***************************************************************************)
\* every family but the serial group is at rest
GroupRestParked == NavParked /\ DeleteParked /\ CrudParked /\ MenuParked /\ ShotParked

\* every family but the delete flow is at rest
DeleteRestParked == NavParked /\ GroupParked /\ CrudParked /\ MenuParked /\ ShotParked

DeleteInit ==
    /\ delPc = "scrollRow"
    /\ delLog = <<>>
    /\ now = 0
    /\ dialogShownAt = Never
    /\ handlerAttachedAt = Never
    /\ dialogSeenAt = Never
    /\ confirmClickedAt = Never
    /\ submitResult = "none"
    /\ DeleteRestParked

\* the clock after an awaited step
Elapse == \E l \in Latencies : now' = now + l

\* a step that throws ends deleteSubscription
DeleteFail ==
    /\ delPc' = "failed"
    /\ UNCHANGED delLog

DeleteStep(a, next) ==
    \E r \in ActionResults :
        IF r = "ok"
        THEN /\ delLog' = Append(delLog, a)
             /\ delPc' = next
        ELSE DeleteFail

AfterConfirmVisibleNoSettle == "hoverConfirm"

\* what follows the wait for the confirm button
AfterConfirmVisible == "settle"

\* the browser's answer to a click on the confirm button at time t: the
\* dialog's handler intercepts the submit if it is attached, otherwise the
\* form is submitted raw and the server answers 405
SubmitAt(t) ==
    IF handlerAttachedAt # Never /\ handlerAttachedAt <= t
    THEN "intercepted" ELSE "405"

\* scrollIntoView(row): failures are swallowed
DelScrollRow ==
    /\ delPc = "scrollRow"
    /\ delLog' = Append(delLog, "scroll row")
    /\ delPc' = "hoverDelete"
    /\ Elapse
    /\ UNCHANGED <<dialogShownAt, handlerAttachedAt, dialogSeenAt,
                   confirmClickedAt, submitResult, deleteRest>>

\* deleteBtn.hover()
DelHoverDelete ==
    /\ delPc = "hoverDelete"
    /\ DeleteStep("hover delete", "clickDelete")
    /\ Elapse
    /\ UNCHANGED <<dialogShownAt, handlerAttachedAt, dialogSeenAt,
                   confirmClickedAt, submitResult, deleteRest>>

\* deleteBtn.click(): the page shows the dialog and attaches its submit
\* handler some time after
DelClickDelete ==
    /\ delPc = "clickDelete"
    /\ DeleteStep("click delete", "waitDialog")
    /\ Elapse
    /\ IF delPc' = "waitDialog"
       THEN /\ dialogShownAt' = now'
            /\ \E d \in AttachDelays : handlerAttachedAt' = now' + d
       ELSE UNCHANGED <<dialogShownAt, handlerAttachedAt>>
    /\ UNCHANGED <<dialogSeenAt, confirmClickedAt, submitResult, deleteRest>>

\* dialog.waitFor({ state: 'visible' })
DelWaitDialog ==
    /\ delPc = "waitDialog"
    /\ DeleteStep("dialog visible", "waitConfirm")
    /\ Elapse
    /\ dialogSeenAt' = IF delPc' = "waitConfirm" THEN now' ELSE dialogSeenAt
    /\ UNCHANGED <<dialogShownAt, handlerAttachedAt, confirmClickedAt,
                   submitResult, deleteRest>>

\* confirmBtn.waitFor({ state: 'visible' })
DelWaitConfirm ==
    /\ delPc = "waitConfirm"
    /\ DeleteStep("confirm visible", AfterConfirmVisible)
    /\ Elapse
    /\ UNCHANGED <<dialogShownAt, handlerAttachedAt, dialogSeenAt,
                   confirmClickedAt, submitResult, deleteRest>>

\* page.waitForTimeout(500): returns after 500 ms or later
DelSettle ==
    /\ delPc = "settle"
    /\ delLog' = Append(delLog, "settle")
    /\ delPc' = "hoverConfirm"
    /\ \E l \in Latencies : now' = now + SETTLE_MS + l
    /\ UNCHANGED <<dialogShownAt, handlerAttachedAt, dialogSeenAt,
                   confirmClickedAt, submitResult, deleteRest>>

\* confirmBtn.hover()
DelHoverConfirm ==
    /\ delPc = "hoverConfirm"
    /\ DeleteStep("hover confirm", "clickConfirm")
    /\ Elapse
    /\ UNCHANGED <<dialogShownAt, handlerAttachedAt, dialogSeenAt,
                   confirmClickedAt, submitResult, deleteRest>>

\* confirmBtn.click(): the click reaches the button at the end of the step
DelClickConfirm ==
    /\ delPc = "clickConfirm"
    /\ DeleteStep("click confirm", "waitForLoadState")
    /\ Elapse
    /\ IF delPc' = "waitForLoadState"
       THEN /\ confirmClickedAt' = now'
            /\ submitResult' = SubmitAt(now')
       ELSE UNCHANGED <<confirmClickedAt, submitResult>>
    /\ UNCHANGED <<dialogShownAt, handlerAttachedAt, dialogSeenAt, deleteRest>>

\* page.waitForLoadState('domcontentloaded')
DelWaitForLoadState ==
    /\ delPc = "waitForLoadState"
    /\ DeleteStep("waitForLoadState", "done")
    /\ Elapse
    /\ UNCHANGED <<dialogShownAt, handlerAttachedAt, dialogSeenAt,
                   confirmClickedAt, submitResult, deleteRest>>

DeleteNext ==
    \/ DelScrollRow
    \/ DelHoverDelete
    \/ DelClickDelete
    \/ DelWaitDialog
    \/ DelWaitConfirm
    \/ DelSettle
    \/ DelHoverConfirm
    \/ DelClickConfirm
    \/ DelWaitForLoadState

DeleteSpec == DeleteInit /\ [][DeleteNext]_vars

(***************************************************************************)
(* The tests 'should create and delete a subscription' and 'should edit    *)
(* and delete a subscription', statement by statement.                     *)
(***************************************************************************)
\* every family but the subscriptions tests is at rest
CrudRestParked == NavParked /\ GroupParked /\ DeleteParked /\ MenuParked /\ ShotParked

CrudInit ==
    /\ crudTest \in {"createDelete", "editDelete"}
    /\ recA \in GeneratedData
    /\ recB \in GeneratedData
    /\ crudTest = "createDelete" => recB = recA
    /\ backend \in Leftovers
    /\ shown = {}
    /\ onPage = "dashboard"
    /\ searchTerm = ""
    /\ opened = 0
    /\ checked = {}
    /\ crudLog = <<>>
    /\ crudPc = "goToCreate"
    /\ crudFailure = "none"
    /\ CrudRestParked

\* the statement returns
CrudOk == /\ crudPc' = AfterStep(crudTest, crudPc)
          /\ UNCHANGED crudFailure

\* the statement throws: the test fails at it
CrudFail == /\ crudPc' = "failed"
            /\ crudFailure' = crudPc

\* the record the test works on at statement p
CurrentData(p) ==
    IF crudTest = "editDelete"
       /\ p \in {"verifyEdited", "delete", "refreshDeleted", "verifyDeleted"}
    THEN recB ELSE recA

\* what sideMenu.navigateTo(['Account Settings']) does to the list
Navigation(from) == IF from # "accountSettings" THEN "load" ELSE "navigate"

\* goToAccountSettings(): a navigation from another page loads the list,
\* a navigation to the page already shown does not
GoToAccountSettings ==
    /\ crudPc \in {"goToCreate", "goToVerify", "goToEdit"}
    /\ IF onPage # "accountSettings"
       THEN /\ shown' = backend
            /\ searchTerm' = ""
       ELSE UNCHANGED <<shown, searchTerm>>
    /\ onPage' = "accountSettings"
    /\ crudLog' = Append(crudLog, Navigation(onPage))
    /\ CrudOk
    /\ UNCHANGED <<crudTest, recA, recB, backend, opened, checked, crudRest>>

\* accountSettings.clickCreate()
ClickCreate ==
    /\ crudPc = "clickCreate"
    /\ onPage' = "contactForm"
    /\ opened' = 0
    /\ checked' = {}
    /\ CrudOk
    /\ UNCHANGED <<crudTest, recA, recB, backend, shown, searchTerm, crudLog,
                   crudRest>>

\* contactForm.fillAndSubmit(data): Create adds a subscription, Save
\* replaces the fields of the opened one; the contact page follows
FillAndSubmit ==
    /\ crudPc \in {"submitCreate", "submitEdit"}
    /\ LET data == IF crudPc = "submitEdit" THEN recB ELSE recA
           row == [id |-> IF opened = 0 THEN NewId ELSE opened,
                   firstName |-> data.firstName, lastName |-> data.lastName,
                   jobRoles |-> FillForm(checked, data)]
       IN  /\ checked' = FillForm(checked, data)
           /\ backend' = {r \in backend : r.id # row.id} \cup {row}
    /\ crudLog' = Append(crudLog, IF opened = 0 THEN "create" ELSE "edit")
    /\ onPage' = "contactInfo"
    /\ CrudOk
    /\ UNCHANGED <<crudTest, recA, recB, shown, searchTerm, opened, crudRest>>

\* accountSettings.openSubscription(fullName): the click needs exactly one
\* row with a link of that name
OpenSubscription ==
    /\ crudPc = "openSubscription"
    /\ LET rows == RowsNamed(shown, searchTerm, GetFullName(recA))
       IN  IF Cardinality(rows) = 1
           THEN /\ opened' = (CHOOSE r \in rows : TRUE).id
                /\ onPage' = "contactInfo"
                /\ CrudOk
           ELSE /\ CrudFail
                /\ UNCHANGED <<opened, onPage>>
    /\ UNCHANGED <<crudTest, recA, recB, backend, shown, searchTerm, checked,
                   crudLog, crudRest>>

\* contactInfo.clickEdit(): the form opens with the fields of the
\* subscription, its roles checked
ClickEdit ==
    /\ crudPc = "clickEdit"
    /\ onPage' = "contactForm"
    /\ checked' = (CHOOSE r \in backend : r.id = opened).jobRoles
    /\ CrudOk
    /\ UNCHANGED <<crudTest, recA, recB, backend, shown, searchTerm, opened,
                   crudLog, crudRest>>

\* accountSettings.findAndVerifyExists(data.firstName, fullName): search,
\* then wait for the one link of that name
FindAndVerifyExists ==
    /\ crudPc \in {"verifyCreated", "verifyEdited"}
    /\ LET data == CurrentData(crudPc)
       IN  /\ searchTerm' = data.firstName
           /\ IF Cardinality(RowsNamed(shown, data.firstName,
                                       GetFullName(data))) = 1
              THEN CrudOk ELSE CrudFail
    /\ crudLog' = Append(crudLog, "verifyExists")
    /\ UNCHANGED <<crudTest, recA, recB, backend, shown, onPage, opened,
                   checked, crudRest>>

\* accountSettings.findAndVerifyNotExists(data.firstName): search, then wait
\* for 'No subscriptions found'
FindAndVerifyNotExists ==
    /\ crudPc \in {"verifyEditedGone", "verifyDeleted"}
    /\ LET term == IF crudPc = "verifyEditedGone" THEN recA.firstName
                   ELSE CurrentData(crudPc).firstName
       IN  /\ searchTerm' = term
           /\ IF Rows(shown, term) = {} THEN CrudOk ELSE CrudFail
    /\ crudLog' = Append(crudLog, "verifyNotExists")
    /\ UNCHANGED <<crudTest, recA, recB, backend, shown, onPage, opened,
                   checked, crudRest>>

\* accountSettings.deleteSubscription(fullName): needs exactly one row with a
\* link of that name; the list on the page stays as it was loaded
DeleteSubscription ==
    /\ crudPc = "delete"
    /\ LET rows == RowsNamed(shown, searchTerm,
                             GetFullName(CurrentData(crudPc)))
       IN  IF Cardinality(rows) = 1
           THEN /\ backend' = {r \in backend : r.id \notin {x.id : x \in rows}}
                /\ crudLog' = Append(crudLog, "delete")
                /\ CrudOk
           ELSE /\ CrudFail
                /\ UNCHANGED <<backend, crudLog>>
    /\ UNCHANGED <<crudTest, recA, recB, shown, onPage, searchTerm, opened,
                   checked, crudRest>>

\* refreshAccountSettings(): goToAccountSettings(), then reloadPage()
RefreshAccountSettings ==
    /\ crudPc \in {"refreshEdited", "refreshDeleted"}
    /\ shown' = ReloadPage(IF onPage # "accountSettings" THEN backend ELSE shown,
                           backend)
    /\ searchTerm' = ""
    /\ onPage' = "accountSettings"
    /\ crudLog' = crudLog \o <<Navigation(onPage), "reload">>
    /\ CrudOk
    /\ UNCHANGED <<crudTest, recA, recB, backend, opened, checked, crudRest>>

CrudNext ==
    \/ GoToAccountSettings
    \/ ClickCreate
    \/ FillAndSubmit
    \/ OpenSubscription
    \/ ClickEdit
    \/ FindAndVerifyExists
    \/ FindAndVerifyNotExists
    \/ DeleteSubscription
    \/ RefreshAccountSettings

CrudSpec == CrudInit /\ [][CrudNext]_vars

(***************************************************************************)
(* smoke_menu.spec.ts, at load: the checks are generated from the table    *)
(* and one test is declared for each.                                      *)
(***************************************************************************)
\* every family but the menu table is at rest
MenuRestParked == NavParked /\ GroupParked /\ DeleteParked /\ CrudParked /\ ShotParked

MenuInit ==
    /\ menuTable \in MenuTables
    /\ testCases = <<>>
    /\ testTitles = <<>>
    /\ planned = NoPlan
    /\ menuPc = "load"
    /\ MenuRestParked

\* const TEST_CASES = generateMenuTestCases()
GenerateTestCases ==
    /\ menuPc = "load"
    /\ testCases' = GenerateMenuTestCases(menuTable)
    /\ menuPc' = "generated"
    /\ UNCHANGED <<menuTable, testTitles, planned, menuRest>>

\* for (const testCase of TEST_CASES) test(`should navigate to ...`, ...)
DeclareTests ==
    /\ menuPc = "generated"
    /\ testTitles' = [k \in 1..Len(testCases) |-> TestTitle(testCases[k])]
    /\ menuPc' = "declared"
    /\ UNCHANGED <<menuTable, testCases, planned, menuRest>>

\* the test of one check runs in one project: sideMenu.navigateTo hands the
\* check's menuNames to findMenuItem, which has these visibility checks for
\* them, in this order
RunFindMenuItem ==
    /\ menuPc = "declared"
    /\ \E names \in {testCases[k].menuNames : k \in 1..Len(testCases)},
          vt \in Projects :
        planned' = [menuNames |-> names, regime |-> vt,
                    probes |-> FindMenuItemPlan(names, vt)]
    /\ menuPc' = "resolving"
    /\ UNCHANGED <<menuTable, testCases, testTitles, menuRest>>

MenuNext == GenerateTestCases \/ DeclareTests \/ RunFindMenuItem

MenuSpec == MenuInit /\ [][MenuNext]_vars

(***************************************************************************)
(* verifyPageScreenshot(page, testInfo) for one check of one project.      *)
(***************************************************************************)
\* every family but the screenshot verification is at rest
ShotRestParked ==
    NavParked /\ GroupParked /\ DeleteParked /\ CrudParked /\ MenuParked

ShotInit ==
    /\ shotProject \in Projects
    /\ titlePath \in TitlePaths
    /\ snapshotFiles \in SUBSET {SnapshotPath(shotProject, titlePath),
                                 BaselinePath(shotProject, titlePath)}
    /\ updateSnapshots \in UpdateModes
    /\ shotPc = "loaderVisible"
    /\ shotLog = <<>>
    /\ shotFailure = "none"
    /\ ShotRestParked

ShotStep(name, result) == [step |-> name, result |-> result]

\* await loader.waitFor({ state: 'visible' }).catch(() => {})
LoaderVisible ==
    /\ shotPc = "loaderVisible"
    /\ \E r \in ActionResults :
        shotLog' = Append(shotLog, ShotStep("loaderVisible", r))
    /\ shotPc' = "loaderHidden"
    /\ UNCHANGED <<shotProject, titlePath, snapshotFiles, updateSnapshots,
                   shotFailure, shotRest>>

\* await loader.waitFor({ state: 'hidden' }).catch(() => {})
LoaderHidden ==
    /\ shotPc = "loaderHidden"
    /\ \E r \in ActionResults :
        shotLog' = Append(shotLog, ShotStep("loaderHidden", r))
    /\ shotPc' = "waitForLoadState"
    /\ UNCHANGED <<shotProject, titlePath, snapshotFiles, updateSnapshots,
                   shotFailure, shotRest>>

\* await page.waitForLoadState()
ShotWaitForLoadState ==
    /\ shotPc = "waitForLoadState"
    /\ \E r \in ActionResults :
        /\ shotLog' = Append(shotLog, ShotStep("waitForLoadState", r))
        /\ shotPc' = IF r = "ok" THEN "existsSync" ELSE "failed"
        /\ shotFailure' = IF r = "ok" THEN shotFailure ELSE "timeout"
    /\ UNCHANGED <<shotProject, titlePath, snapshotFiles, updateSnapshots,
                   shotRest>>

\* fs.existsSync(snapshotPath)
ExistsSync == SnapshotPath(shotProject, titlePath) \in snapshotFiles

\* if (!fs.existsSync(snapshotPath))
CheckSnapshotPath ==
    /\ shotPc = "existsSync"
    /\ shotLog' = Append(shotLog,
                     ShotStep("existsSync", IF ExistsSync THEN "true" ELSE "false"))
    /\ shotPc' = IF ExistsSync THEN "toHaveScreenshot" ELSE "waitForTimeout"
    /\ UNCHANGED <<shotProject, titlePath, snapshotFiles, updateSnapshots,
                   shotFailure, shotRest>>

\* await page.waitForTimeout(baselineWaitMs)
BaselineWait ==
    /\ shotPc = "waitForTimeout"
    /\ shotLog' = Append(shotLog, [step |-> "waitForTimeout", result |-> "ok",
                                  ms |-> BASELINE_WAIT_MS])
    /\ shotPc' = "toHaveScreenshot"
    /\ UNCHANGED <<shotProject, titlePath, snapshotFiles, updateSnapshots,
                   shotFailure, shotRest>>

\* await expect(page).toHaveScreenshot(): compares with the baseline; when
\* there is none, writes it unless the mode is 'none', and fails the test
\* unless the mode is 'all' (in mode 'missing' without throwing)
ToHaveScreenshot ==
    /\ shotPc = "toHaveScreenshot"
    /\ LET baseline == BaselinePath(shotProject, titlePath)
       IN  IF baseline \in snapshotFiles
           THEN /\ \E r \in {"match", "mismatch"} :
                    /\ shotLog' = Append(shotLog, ShotStep("toHaveScreenshot", r))
                    /\ shotPc' = IF r = "match" THEN "done" ELSE "failed"
                    /\ shotFailure' = IF r = "match" THEN shotFailure ELSE "mismatch"
                /\ UNCHANGED snapshotFiles
           ELSE /\ shotLog' = Append(shotLog, ShotStep("toHaveScreenshot", "missing"))
                /\ snapshotFiles' = IF updateSnapshots = "none" THEN snapshotFiles
                                    ELSE snapshotFiles \cup {baseline}
                /\ shotPc' = IF updateSnapshots = "none" THEN "failed" ELSE "done"
                /\ shotFailure' = IF updateSnapshots = "all" THEN shotFailure
                                  ELSE "missingSnapshot"
    /\ UNCHANGED <<shotProject, titlePath, updateSnapshots, shotRest>>

ShotNext ==
    \/ LoaderVisible
    \/ LoaderHidden
    \/ ShotWaitForLoadState
    \/ CheckSnapshotPath
    \/ BaselineWait
    \/ ToHaveScreenshot

ScreenshotSpec == ShotInit /\ [][ShotNext]_vars

(***************************************************************************)
(* A serial group of checks sharing one session (smoke_menu.spec.ts).      *)
(***************************************************************************)
\* the check is between the end of its beforeEach and the end of its body
Executing(i) == checkPc[i] \in {"navigateTo", "verifyPageScreenshot"}

ExecutingChecks == {i \in 1..numChecks : Executing(i)}

SerialMayStartParallel(i) ==
    /\ i \in 1..numChecks
    /\ checkPc[i] = "pending"
    /\ CloseCalls = 0

\* mode 'serial': a check starts when every check before it has passed; the
\* checks after a failed one are skipped
SerialMayStart(i) ==
    /\ i \in 1..numChecks
    /\ checkPc[i] = "pending"
    /\ \A j \in 1..(i - 1) : checkPc[j] = "passed"
    /\ CloseCalls = 0

\* a beforeEach that throws fails its check
AfterBeforeEach(o) == IF o \in {"noop", "ok"} THEN "navigateTo" ELSE "failed"

AfterAllDueOnSuccess ==
    /\ CloseCalls = 0
    /\ numChecks > 0
    /\ \A i \in 1..numChecks : checkPc[i] = "passed"

\* afterAll runs once, when no check of the group is left to run: all have
\* passed, or one has failed
AfterAllDue ==
    /\ CloseCalls = 0
    /\ numChecks > 0
    /\ ExecutingChecks = {}
    /\ \/ \A i \in 1..numChecks : checkPc[i] = "passed"
       \/ \E i \in 1..numChecks : checkPc[i] = "failed"

CheckStepFrameClosing ==
    /\ openPages' = openPages \ {session.page}
    /\ UNCHANGED <<session, openContexts, loggedIn, events, sideMenuPage>>

\* the body of a check reads session.page and assigns nothing of the session
CheckStepFrame ==
    UNCHANGED <<session, openContexts, openPages, loggedIn, events,
                sideMenuPage>>

GroupInit ==
    /\ credentials \in BOOLEAN
    /\ project \in Projects
    /\ session = CreateSharedSession
    /\ openContexts = {}
    /\ openPages = {}
    /\ loggedIn = {}
    /\ numChecks \in 1..MaxChecks
    /\ checkPc = [i \in 1..numChecks |-> "pending"]
    /\ sideMenuPage = NullHandle
    /\ events = <<>>
    /\ GroupRestParked

\* test.beforeEach of check i: initSharedSession, then new SideMenuComponent
BeforeEach(i) ==
    /\ SerialMayStart(i)
    /\ \E o \in InitOutcomes(session, credentials) :
        /\ InitSharedSession(o)
        /\ checkPc' = [checkPc EXCEPT ![i] = AfterBeforeEach(o)]
        /\ sideMenuPage' = IF o \in {"noop", "ok"} THEN session'.page
                           ELSE sideMenuPage
    /\ UNCHANGED <<credentials, project, numChecks, groupRest>>

\* sideMenu.navigateTo(...) of check i: it returns or throws
RunNavigateTo(i) ==
    /\ i \in 1..numChecks
    /\ checkPc[i] = "navigateTo"
    /\ \E r \in ActionResults :
        /\ r = "ok" => sideMenuPage \in openPages
        /\ checkPc' = [checkPc EXCEPT ![i] =
                          IF r = "ok" THEN "verifyPageScreenshot" ELSE "failed"]
    /\ CheckStepFrame
    /\ UNCHANGED <<credentials, project, numChecks, groupRest>>

\* verifyPageScreenshot(session.page, testInfo) of check i
RunVerifyPageScreenshot(i) ==
    /\ i \in 1..numChecks
    /\ checkPc[i] = "verifyPageScreenshot"
    /\ \E r \in ActionResults :
        /\ r = "ok" => session.page \in openPages
        /\ checkPc' = [checkPc EXCEPT ![i] =
                          IF r = "ok" THEN "passed" ELSE "failed"]
    /\ CheckStepFrame
    /\ UNCHANGED <<credentials, project, numChecks, groupRest>>

\* test.afterAll: closeSharedSession; the checks not started are skipped
AfterAll ==
    /\ AfterAllDue
    /\ CloseSharedSession
    /\ checkPc' = [i \in 1..numChecks |->
                      IF checkPc[i] = "pending" THEN "skipped" ELSE checkPc[i]]
    /\ UNCHANGED <<credentials, project, numChecks, sideMenuPage, groupRest>>

GroupNext ==
    \/ \E i \in 1..MaxChecks : BeforeEach(i)
    \/ \E i \in 1..MaxChecks : RunNavigateTo(i)
    \/ \E i \in 1..MaxChecks : RunVerifyPageScreenshot(i)
    \/ AfterAll

GroupSpec == GroupInit /\ [][GroupNext]_vars

\* every hook and every test body ends: each wait in them has a timeout
GroupFairSpec == GroupSpec /\ WF_vars(GroupNext)

(***************************************************************************)
(* initSharedSession and closeSharedSession called in any order on one     *)
(* session object.                                                         *)
(***************************************************************************)
SessionInit ==
    /\ credentials \in BOOLEAN
    /\ project \in Projects
    /\ session = CreateSharedSession
    /\ openContexts = {}
    /\ openPages = {}
    /\ loggedIn = {}
    /\ numChecks = 0
    /\ checkPc = <<>>
    /\ sideMenuPage = NullHandle
    /\ events = <<>>
    /\ GroupRestParked

CallInit ==
    /\ Len(events) < MaxCalls
    /\ \E o \in InitOutcomes(session, credentials) : InitSharedSession(o)
    /\ UNCHANGED <<credentials, project, numChecks, checkPc, sideMenuPage,
                   groupRest>>

CallClose ==
    /\ Len(events) < MaxCalls
    /\ CloseSharedSession
    /\ UNCHANGED <<credentials, project, numChecks, checkPc, sideMenuPage,
                   groupRest>>

SessionNext == CallInit \/ CallClose

SessionSpec == SessionInit /\ [][SessionNext]_vars

(***************************************************************************)
(* Vocabulary of the properties.                                           *)
(***************************************************************************)
SubRequested == subItemNames.present /\ Len(subItemNames.names) > 0

CompactOrExpanded == viewportType \in {"mobile", "desktop-large"}

IsPrefix(s, t) ==
    /\ Len(s) <= Len(t)
    /\ \A i \in 1..Len(s) : s[i] = t[i]

Count(a, t) == Cardinality({i \in 1..Len(log) : log[i] = Act(a, t)})

\* the clicks on menu elements, in order
MenuClicks ==
    SelectSeq(log, LAMBDA e : e.act = "click" /\ e.target \in {"entry", "sub"})

ExactKinds == {"textExact", "linkExact", "altExact"}
PartialKinds == {"textPartial", "linkPartial"}
KindRank(k) == IF k = "textExact" THEN 1 ELSE IF k = "linkExact" THEN 2 ELSE 3

\* the resolver has returned a locator to its caller
ResolverReturned == menuLink # NoLocator

NoneVisible == \A j \in 1..Len(probes) : ~probes[j].visible

(***************************************************************************)
(* C1 (as stated): in the Compact and Expanded regimes the whole candidate *)
(* list is exhausted at one cascade step before the next step starts: a    *)
(* link-role check is made only after the exact-text check of every        *)
(* candidate, and an alt-text check only after the link-role check of      *)
(* every candidate.                                                        *)
(***************************************************************************)
C1_ListExhaustedPerStep ==
    CompactOrExpanded =>
        \A j \in 1..Len(probes) :
            probes[j].kind \in {"linkExact", "altExact"} =>
                \A i \in 1..Len(menuNames) :
                    \E k \in 1..(j - 1) :
                        /\ probes[k].idx = i
                        /\ KindRank(probes[k].kind) = KindRank(probes[j].kind) - 1

(***************************************************************************)
(* C1 (amended): in the Compact and Expanded regimes the candidates are    *)
(* tried in caller-supplied order; for each candidate the exact checks     *)
(* (text, then link role, then alt text) are made before the next          *)
(* candidate is looked at; a partial check is made only after both the     *)
(* exact-text and the link-role check of every candidate answered "not     *)
(* visible".                                                               *)
(***************************************************************************)
C1_ExactPerNameBeforePartial ==
    CompactOrExpanded =>
        /\ \A j, k \in 1..Len(probes) :
            (j < k /\ probes[j].kind \in ExactKinds /\ probes[k].kind \in ExactKinds) =>
                \/ probes[j].idx < probes[k].idx
                \/ /\ probes[j].idx = probes[k].idx
                   /\ KindRank(probes[j].kind) < KindRank(probes[k].kind)
        /\ \A j \in 1..Len(probes) :
            probes[j].kind \in PartialKinds =>
                \A i \in 1..Len(menuNames), kd \in {"textExact", "linkExact"} :
                    \E k \in 1..(j - 1) :
                        /\ probes[k].idx = i
                        /\ probes[k].kind = kd
                        /\ ~probes[k].visible
        /\ \A j, k \in 1..Len(probes) :
            (j < k /\ probes[j].kind \in PartialKinds /\ probes[k].kind \in PartialKinds) =>
                probes[j].idx <= probes[k].idx

\* the link-role match of the first of two different candidates is returned
\* although the exact text of the second was never looked at
C1_Witness ==
    /\ CompactOrExpanded
    /\ Len(menuNames) = 2
    /\ menuNames[1] # menuNames[2]
    /\ menuLink = [kind |-> "linkExact", name |-> menuNames[1], guaranteed |-> TRUE]
    /\ \A j \in 1..Len(probes) : probes[j].idx = 1

(***************************************************************************)
(* C2 (as stated): in the Compact and Expanded regimes a resolver that     *)
(* ends at its last fallback has made, for every candidate, the exact      *)
(* text, link-role and alt-text checks, and then for every candidate the   *)
(* partial text and partial link-role checks.                              *)
(***************************************************************************)
C2_FullCascade ==
    (CompactOrExpanded /\ ResolverReturned /\ ~menuLink.guaranteed) =>
        /\ menuLink.kind = "textPartial"
        /\ menuLink.name = (IF Len(menuNames) > 0 THEN menuNames[1] ELSE "")
        /\ [j \in 1..Len(probes) |-> <<probes[j].kind, probes[j].idx>>] =
              [j \in 1..(5 * Len(menuNames)) |->
                  IF j <= 3 * Len(menuNames)
                  THEN << <<"textExact", "linkExact", "altExact">>[((j - 1) % 3) + 1],
                          ((j - 1) \div 3) + 1 >>
                  ELSE << <<"textPartial", "linkPartial">>[((j - 3 * Len(menuNames) - 1) % 2) + 1],
                          ((j - 3 * Len(menuNames) - 1) \div 2) + 1 >>]

(***************************************************************************)
(* C3: no step of the resolver cascade raises: a visibility check that     *)
(* ends in an error counts as "not visible", and after a check that was    *)
(* not visible the resolver goes on to the next check or returns its       *)
(* last fallback; navigateTo never ends with an error of a visibility      *)
(* check.                                                                  *)
(***************************************************************************)
C3_CascadeNeverRaises ==
    /\ failure # "Error"
    /\ (lastCheck.at = "findMenuItem" /\ lastCheck.outcome = "error") =>
          ~probes[Len(probes)].visible
    /\ (Len(probes) > 0 /\ ~probes[Len(probes)].visible) =>
          \/ pc = "resolve"
          \/ (ResolverReturned /\ ~menuLink.guaranteed)
    /\ (ResolverReturned /\ menuLink.guaranteed) => probes[Len(probes)].visible

\* the last check of the cascade ended in an error and the resolver went on
\* to return its fallback
C3_Witness ==
    /\ lastCheck = [at |-> "findMenuItem", outcome |-> "error"]
    /\ Len(probes) >= 2
    /\ ResolverReturned
    /\ ~menuLink.guaranteed

C5_Expected ==
    <<Act("hover", "entry")>>
    \o (IF subVisible = "false" THEN <<Act("click", "entry")>> ELSE <<>>)
    \o <<Act("click", "sub"), Act("hover", "anchor")>>

C5_PointerActions ==
    SelectSeq(log, LAMBDA e : e \in {Act("hover", "entry"), Act("click", "entry"),
                                     Act("click", "sub"), Act("hover", "anchor")})

C5_IconOnlyOrder ==
    (viewportType = "desktop-small" /\ SubRequested) =>
        /\ IsPrefix(C5_PointerActions, C5_Expected)
        /\ pc = "done" =>
              /\ C5_PointerActions = C5_Expected
              /\ Count("hover", "anchor") = 1
              /\ ~flyoutOpen

\* a run in which the hover did not disclose the sub-entry and the entry
\* was clicked, up to the return
C5_Witness ==
    /\ viewportType = "desktop-small"
    /\ SubRequested
    /\ pc = "done"
    /\ subVisible = "false"
    /\ Count("click", "entry") = 1

(***************************************************************************)
(* C6: in the Expanded and Compact regimes with a sub-entry requested the  *)
(* parent entry is clicked if and only if the sub-entry visibility check   *)
(* answered "not visible"; a disclosed sub-entry list is never clicked on  *)
(* again; on return the sub-entry was clicked exactly once, after the      *)
(* parent.                                                                 *)
(***************************************************************************)
C6_ParentClickedIffNotDisclosed ==
    (CompactOrExpanded /\ SubRequested) =>
        /\ Count("click", "entry") <= 1
        /\ Count("click", "sub") <= 1
        /\ Count("click", "entry") = 1 => subVisible = "false"
        /\ Count("click", "sub") = 1 =>
              /\ subVisible # "unchecked"
              /\ MenuClicks = (IF subVisible = "false"
                               THEN <<Act("click", "entry"), Act("click", "sub")>>
                               ELSE <<Act("click", "sub")>>)
        /\ pc = "done" => Count("click", "sub") = 1

\* a sub-entry that was already disclosed: no click on the parent
C6_Witness ==
    /\ CompactOrExpanded
    /\ SubRequested
    /\ pc = "done"
    /\ subVisible = "true"
    /\ Count("click", "entry") = 0

(***************************************************************************)
(* C7 (as stated): an overlay panel that is open is never toggled closed.  *)
(***************************************************************************)
C7_OpenPanelStaysOpen ==
    [][panelOpen => panelOpen']_vars

(***************************************************************************)
(* C8: navigateTo terminates: it returns or fails.  When it returns, the   *)
(* last menu element clicked is the requested target (the sub-entry when   *)
(* one is requested, the entry otherwise) and the view is that element's;  *)
(* when it fails, it fails with a timeout.                                 *)
(***************************************************************************)
C8_TargetReached ==
    /\ MenuClicks # <<>>
    /\ IF SubRequested
       THEN /\ MenuClicks[Len(MenuClicks)] = Act("click", "sub")
            /\ view = subMenuLink
            /\ view.kind \in {"subInEntry", "subInMenuItemLi"}
            /\ view.name = subItemNames.names[1]
       ELSE /\ MenuClicks[Len(MenuClicks)] = Act("click", "entry")
            /\ view = menuLink
            /\ Len(menuNames) > 0 => (\E i \in 1..Len(menuNames) : view.name = menuNames[i])

C8_Terminates ==
    /\ <>(pc \in {"done", "failed"})
    /\ [](pc = "done" => C8_TargetReached)
    /\ [](pc = "failed" => failure = "TimeoutError")

\* a return after the parent had to be clicked to disclose the sub-entry
C8_Witness ==
    /\ pc = "done"
    /\ SubRequested
    /\ Count("click", "entry") = 1
    /\ view = subMenuLink

(***************************************************************************)
(* C9: if subItemNames is absent or empty, the top-level entry is the      *)
(* target in every regime: no sub-entry is looked for, hovered or clicked, *)
(* the anchor is not hovered, and on return the entry was clicked exactly  *)
(* once.                                                                   *)
(***************************************************************************)
C9_EntryIsTarget ==
    (pc # "idle" /\ ~SubRequested) =>
        /\ subVisible = "unchecked"
        /\ Count("click", "sub") = 0
        /\ Count("hover", "sub") = 0
        /\ Count("scroll", "sub") = 0
        /\ Count("hover", "anchor") = 0
        /\ Count("click", "entry") <= 1
        /\ pc = "done" => (Count("click", "entry") = 1 /\ view = menuLink)

\* an empty list of sub-entry names in the icon-only regime, up to the return
C9_Witness ==
    /\ pc = "done"
    /\ subItemNames = [present |-> TRUE, names |-> <<>>]
    /\ viewportType = "desktop-small"

(***************************************************************************)
(* C10: on every path the wait for the load state is the last step: it is  *)
(* issued once, after every click and hover, and navigateTo returns only   *)
(* after it.                                                               *)
(***************************************************************************)
C10_LoadWaitLast ==
    /\ \A i \in 1..Len(log) :
          log[i].act = "waitForLoadState" => (i = Len(log) /\ pc \in {"done"})
    /\ pc = "done" =>
          /\ log # <<>>
          /\ log[Len(log)].act = "waitForLoadState"
          /\ \E i \in 1..(Len(log) - 1) : log[i].act = "click"

\* a return of utils.navigateToMenuItem in the compact regime
C10_Witness ==
    /\ pc = "done"
    /\ impl = "utils"
    /\ viewportType = "mobile"
    /\ Count("click", "toggle") = 1

(***************************************************************************)
(* C11 (as stated): the regime navigateTo works with is a function of the  *)
(* viewport width alone: a width below 768 gives mobile, a width from 768  *)
(* up to 1199 gives desktop-small, a width of 1200 or more gives           *)
(* desktop-large; a page without a viewport size counts as 1920 wide and   *)
(* gives desktop-large.  Stated of both classifiers.                       *)
(***************************************************************************)
C11_RegimeByThresholds ==
    pc # "idle" =>
        viewportType =
            (IF ~viewportSize.hasSize THEN "desktop-large"
             ELSE IF viewportSize.width < 768 THEN "mobile"
             ELSE IF viewportSize.width < 1200 THEN "desktop-small"
             ELSE "desktop-large")

(***************************************************************************)
(* Vocabulary of the session properties.                                   *)
(***************************************************************************)
\* the step is a call of op: it appends one entry to events
IsCall(op) ==
    /\ Len(events') = Len(events) + 1
    /\ events'[Len(events')].op = op

InitCalls == {k \in 1..Len(events) : events[k].op = "init"}

\* the step belongs to the body of a check
CheckBodyStep ==
    \E i \in 1..numChecks : Executing(i) /\ checkPc'[i] # checkPc[i]

(***************************************************************************)
(* C12: in a serial group initSharedSession is called once per check run;  *)
(* only the first call authenticates (new context, login, dashboard wait); *)
(* every later call is the early return and changes neither the session    *)
(* nor the browser, so at most one context is created and at most one      *)
(* login is made per group.                                                *)
(***************************************************************************)
C12_AuthenticatedOnce ==
    /\ [](ContextsCreated <= 1)
    /\ [](\A k \in InitCalls :
            (\E j \in InitCalls : j < k) => events[k].outcome = "noop")
    /\ [][(IsCall("init") /\ InitCalls # {}) =>
            UNCHANGED <<session, openContexts, openPages, loggedIn>>]_vars

\* the third check of a group found the session of the first
C12_Witness ==
    /\ Len(events) = 3
    /\ events[1].outcome = "ok"
    /\ events[2].outcome = "noop"
    /\ events[3].outcome = "noop"
    /\ ContextsCreated = 1

(***************************************************************************)
(* C13: closeSharedSession is idempotent.  Called on a session whose flag  *)
(* is not set it closes nothing and changes nothing; called on an          *)
(* initialized session it closes the session's page and context and        *)
(* clears the flag; a call that follows a close is a no-op.                *)
(***************************************************************************)
C13_CloseIdempotent ==
    /\ [][IsCall("close") =>
            /\ ~session'.isInitialized
            /\ IF session.isInitialized
               THEN /\ session.page \in openPages
                    /\ session.context \in openContexts
                    /\ openPages' = openPages \ {session.page}
                    /\ openContexts' = openContexts \ {session.context}
                    /\ session'.page = session.page
                    /\ session'.context = session.context
               ELSE UNCHANGED <<session, openContexts, openPages>>]_vars
    /\ [](\A k \in 1..(Len(events) - 1) :
            (events[k].op = "close" /\ events[k + 1].op = "close") =>
                events[k + 1].outcome = "noop")

\* a close of an initialized session followed by a second close
C13_Witness ==
    \E k \in 1..(Len(events) - 2) :
        /\ events[k] = [op |-> "init", outcome |-> "ok", project |-> project]
        /\ events[k + 1] = [op |-> "close", outcome |-> "closed"]
        /\ events[k + 2] = [op |-> "close", outcome |-> "noop"]
        /\ openContexts = {}

(***************************************************************************)
(* C14: in every run of a group closeSharedSession is eventually called,   *)
(* and called once: when it is called no check is executing and no check   *)
(* executes after it, whether the checks passed, a check failed or the     *)
(* initialization failed.                                                  *)
(***************************************************************************)
C14_ClosedOnceAtEnd ==
    /\ <>(CloseCalls = 1)
    /\ [](CloseCalls <= 1)
    /\ [](CloseCalls = 1 => ExecutingChecks = {})
    /\ [][CloseCalls = 1 => checkPc' = checkPc]_vars

\* the close of a group whose second check failed and whose third was skipped
C14_Witness ==
    /\ numChecks = 3
    /\ checkPc = <<"passed", "failed", "skipped">>
    /\ CloseCalls = 1

(***************************************************************************)
(* C15: the checks of a serial group do not overlap and share the context  *)
(* of the group's first init: at most one check is executing, at most one  *)
(* logged-in context is open, and an executing check works on the page of  *)
(* the first context the group created.                                    *)
(***************************************************************************)
C15_SerialOneContext ==
    /\ Cardinality(ExecutingChecks) <= 1
    /\ Cardinality(loggedIn \cap openContexts) <= 1
    /\ \A i \in ExecutingChecks :
          /\ events[1].outcome = "ok"
          /\ session.context = 1
          /\ session.context \in loggedIn \cap openContexts
          /\ sideMenuPage = session.page

\* the second check is executing on the context the first check created
C15_Witness ==
    /\ numChecks >= 2
    /\ checkPc[1] = "passed"
    /\ checkPc[2] = "navigateTo"
    /\ ContextsCreated = 1

(***************************************************************************)
(* C16: between the successful init and the close no step of a check's     *)
(* body (navigateTo, verifyPageScreenshot) changes isInitialized, context  *)
(* or page or closes the page or the context; while a check is executing   *)
(* the session is initialized and its page and context are open.           *)
(***************************************************************************)
C16_SessionReadOnlyInChecks ==
    /\ [][CheckBodyStep =>
            UNCHANGED <<session, openContexts, openPages>>]_vars
    /\ [](\A i \in ExecutingChecks :
            /\ session.isInitialized
            /\ session.page \in openPages
            /\ session.context \in openContexts)

\* a check has gone through navigateTo and verifyPageScreenshot and the
\* session is still the open one
C16_Witness ==
    /\ numChecks >= 1
    /\ checkPc[1] = "passed"
    /\ CloseCalls = 0
    /\ session = [context |-> 1, page |-> 1, isInitialized |-> TRUE]
    /\ openPages = {1}

(***************************************************************************)
(* C17: in deleteSubscription the confirm click comes only after the hover *)
(* and the click of the row's delete control, the dialog seen visible and  *)
(* a settle delay: it reaches the button 500 ms or more after the dialog   *)
(* was seen.  Hence, if the dialog's submit handler is attached no later   *)
(* than 500 ms after the dialog was seen, the click is intercepted and is  *)
(* not a raw form submit (405).                                            *)
(***************************************************************************)
C17_ConfirmAfterSettle ==
    confirmClickedAt # Never =>
        /\ IsPrefix(<<"scroll row", "hover delete", "click delete",
                      "dialog visible", "confirm visible", "settle",
                      "hover confirm", "click confirm">>, delLog)
        /\ dialogSeenAt # Never
        /\ dialogShownAt <= dialogSeenAt
        /\ confirmClickedAt >= dialogSeenAt + 500
        /\ handlerAttachedAt <= dialogSeenAt + 500 => submitResult = "intercepted"

\* the handler was attached exactly when the settle delay ended, the click
\* followed at once and was intercepted
C17_Witness ==
    /\ delPc = "done"
    /\ handlerAttachedAt = dialogSeenAt + 500
    /\ confirmClickedAt = dialogSeenAt + 500
    /\ submitResult = "intercepted"

(***************************************************************************)
(* C18 (as stated): create/delete round trip.  For every generated record, *)
(* after the create the search by the record's first name shows a link     *)
(* with its full name, and after the delete and a reload the search by the *)
(* first name shows the empty-state message: neither verification of       *)
(* 'should create and delete a subscription' fails.                        *)
(***************************************************************************)
C18_CreateDeleteRoundTrip ==
    crudTest = "createDelete" =>
        crudFailure \notin {"verifyCreated", "verifyDeleted"}

(***************************************************************************)
(* C19 (as stated): edit round trip.  For every pair of generated records  *)
(* A and B, after create(A), the edit to B and a reload, the search by     *)
(* A's first name shows the empty-state message and the search by B's      *)
(* first name shows a link with B's full name: neither verification after  *)
(* the edit of 'should edit and delete a subscription' fails.              *)
(***************************************************************************)
C19_EditRoundTrip ==
    crudTest = "editDelete" =>
        crudFailure \notin {"verifyEditedGone", "verifyEdited"}

(***************************************************************************)
(* Vocabulary of the menu table properties.                                *)
(***************************************************************************)
SubCount(menuItem) ==
    IF menuItem.subItems = Undefined THEN 0 ELSE Len(menuItem.subItems[1])

\* the leaves of a table: <<i, j>> is sub-entry j of entry i, <<i, 0>> is
\* entry i when it has no sub-entries
Leaves(table) ==
    {<<i, 0>> : i \in {n \in 1..Len(table) : SubCount(table[n]) = 0}}
        \cup UNION {{<<i, j>> : j \in 1..SubCount(table[i])} : i \in 1..Len(table)}

\* leaf a stands before leaf b in the table
LeafBefore(a, b) == a[1] < b[1] \/ (a[1] = b[1] /\ a[2] < b[2])

\* position of a leaf among the leaves of the table
LeafRank(table, leaf) ==
    Cardinality({l \in Leaves(table) : LeafBefore(l, leaf)}) + 1

RECURSIVE SumOfMaxOneSubCount(_)
SumOfMaxOneSubCount(table) ==
    IF table = <<>> THEN 0
    ELSE (IF SubCount(Head(table)) > 1 THEN SubCount(Head(table)) ELSE 1)
             + SumOfMaxOneSubCount(Tail(table))

(***************************************************************************)
(* C20: generateMenuTestCases yields one check per leaf of the table, in   *)
(* table order: the k-th check is the check of the k-th leaf (its first    *)
(* entry name is the entry's name, its first sub-entry name the            *)
(* sub-entry's, and it has no sub-entry names when the entry has no        *)
(* sub-entries); the number of checks, and of tests declared, is the sum   *)
(* over the entries of max(1, number of sub-entries).                      *)
(***************************************************************************)
C20_OneCheckPerLeaf ==
    menuPc \in {"generated", "declared"} =>
        /\ Len(testCases) = SumOfMaxOneSubCount(menuTable)
        /\ Len(testCases) = Cardinality(Leaves(menuTable))
        /\ menuPc = "declared" => Len(testTitles) = Len(testCases)
        /\ \A leaf \in Leaves(menuTable) :
              LET k == LeafRank(menuTable, leaf)
                  entry == menuTable[leaf[1]]
              IN  /\ k \in 1..Len(testCases)
                  /\ testCases[k].menuNames[1] = entry.name
                  /\ IF leaf[2] = 0
                     THEN ~testCases[k].subItemNames.present
                     ELSE /\ testCases[k].subItemNames.present
                          /\ testCases[k].subItemNames.names[1] =
                                 entry.subItems[1][leaf[2]].desktop

\* the thirty tests declared for MENU_ITEMS
C20_Witness ==
    /\ menuTable = MENU_ITEMS
    /\ menuPc = "declared"
    /\ Len(testTitles) = 30
    /\ testTitles[30] = "should navigate to Requests"
    /\ testTitles[3] = "should navigate to Cloud Servers > Create & Manage"

\* the visibility checks of one precision level, in the order they are made
ProbesOfKind(plan, kind) ==
    SelectSeq(plan, LAMBDA probe : probe.kind = kind)

\* C21: in every generated check menuNames starts with the entry's canonical
\* name and the mobile name, when the entry has one, is the only name after
\* it; and at each precision level findMenuItem tests the names of the check
\* in their listed order, the canonical name first.
C21_CanonicalFirst ==
    /\ menuPc \in {"generated", "declared", "resolving"} =>
          \A leaf \in Leaves(menuTable) :
              LET testCase == testCases[LeafRank(menuTable, leaf)]
                  entry == menuTable[leaf[1]]
              IN  /\ testCase.menuNames[1] = entry.name
                  /\ Len(testCase.menuNames) = IF Truthy(entry.mobileName) THEN 2 ELSE 1
                  /\ Truthy(entry.mobileName) =>
                        testCase.menuNames[2] = entry.mobileName[1]
    /\ menuPc = "resolving" =>
          LET names == planned.menuNames
          IN  /\ \E k \in 1..Len(testCases) : testCases[k].menuNames = names
              /\ \A kind \in {planned.probes[n].kind : n \in 1..Len(planned.probes)} :
                    LET level == ProbesOfKind(planned.probes, kind)
                    IN  /\ Len(level) = Len(names)
                        /\ \A i \in 1..Len(level) :
                              level[i].idx = i /\ level[i].name = names[i]

\* 'Identity and Access' (mobile name 'Identity') is being resolved in the
\* mobile project: 'Identity and Access' is tested first at every level
C21_Witness ==
    /\ menuPc = "resolving"
    /\ menuTable = MENU_ITEMS
    /\ planned.regime = "mobile"
    /\ planned.menuNames = <<"Identity and Access", "Identity">>
    /\ Len(planned.probes) = 6
    /\ planned.probes[1] = [kind |-> "textExact", idx |-> 1, name |-> "Identity and Access"]
    /\ planned.probes[3] = [kind |-> "textExact", idx |-> 2, name |-> "Identity"]

\* steps of verifyPageScreenshot that ended, by name
ShotSteps(name) == {n \in 1..Len(shotLog) : shotLog[n].step = name}

\* C22: when the comparison is about to run, the extra settle delay was
\* waited if and only if the check has no baseline image; a comparison that
\* finds no baseline does not fail the step or the test; and the comparison
\* runs after both loader waits, whatever their results.
C22_BaselineWaitIffMissing ==
    /\ shotPc = "toHaveScreenshot" =>
          (ShotSteps("waitForTimeout") # {}
              <=> BaselinePath(shotProject, titlePath) \notin snapshotFiles)
    /\ (\E n \in ShotSteps("toHaveScreenshot") : shotLog[n].result = "missing") =>
          shotPc = "done" /\ shotFailure = "none"
    /\ \A n \in ShotSteps("toHaveScreenshot") :
          /\ n > 2
          /\ shotLog[1].step = "loaderVisible"
          /\ shotLog[2].step = "loaderHidden"

\* the call of initSharedSession that created context id
CreatorOf(id) ==
    CHOOSE k \in Authentications :
        Cardinality({j \in Authentications : j <= k}) = id

(***************************************************************************)
(* C23: when QA_USER or QA_PASS is missing, every call of                  *)
(* initSharedSession ends in the throw of getCredentials(): no context and *)
(* no page is created, no login is made, the session stays as created, and *)
(* no check gets past its beforeEach: none reaches navigateTo or           *)
(* verifyPageScreenshot, none passes.                                      *)
(***************************************************************************)
C23_NoCredentialsNoCheck ==
    ~credentials =>
        /\ \A k \in InitCalls : events[k].outcome = "noCredentials"
        /\ ContextsCreated = 0
        /\ openContexts = {} /\ openPages = {} /\ loggedIn = {}
        /\ session = CreateSharedSession
        /\ sideMenuPage = NullHandle
        /\ \A i \in 1..numChecks : checkPc[i] \in {"pending", "failed", "skipped"}

\* the group ran without credentials: the first beforeEach threw, the other
\* checks were skipped, afterAll found nothing to close
C23_Witness ==
    /\ ~credentials
    /\ numChecks = 3
    /\ checkPc = <<"failed", "skipped", "skipped">>
    /\ events = << [op |-> "init", outcome |-> "noCredentials", project |-> project],
                   [op |-> "close", outcome |-> "noop"] >>

\* the outcome of the call that has just ended
LastOutcome == events'[Len(events')].outcome

(***************************************************************************)
(* C26: whenever session.isInitialized is set, session.context and         *)
(* session.page are open, the login went through in that context and the   *)
(* call that created it ended normally, after the dashboard wait.  The     *)
(* flag is set only by a call of initSharedSession that ends normally; a   *)
(* call that throws leaves it unset.                                       *)
(***************************************************************************)
C26_InitializedMeansReady ==
    /\ [](session.isInitialized =>
            /\ session.context \in openContexts
            /\ session.page \in openPages
            /\ session.context \in loggedIn
            /\ session.page = session.context
            /\ events[CreatorOf(session.context)].outcome = "ok")
    /\ [][(~session.isInitialized /\ session'.isInitialized) =>
            IsCall("init") /\ LastOutcome = "ok"]_vars
    /\ [][(IsCall("init") /\ LastOutcome \in {"noCredentials", "loginFailed",
                                               "dashboardFailed"}) =>
            ~session'.isInitialized]_vars

\* a second call initialized the session after the first failed in the
\* dashboard wait
C26_Witness ==
    /\ Len(events) = 2
    /\ events[1].outcome = "dashboardFailed"
    /\ events[2].outcome = "ok"
    /\ session = [context |-> 2, page |-> 2, isInitialized |-> TRUE]
    /\ openContexts = {1, 2}

(***************************************************************************)
(* C27: when closeSharedSession has returned, no context and no page that  *)
(* initSharedSession created is open, whether the init ended normally or   *)
(* threw during the login or the dashboard wait.                           *)
(***************************************************************************)
C27_CloseLeavesNothingOpen ==
    [][IsCall("close") => openContexts' = {} /\ openPages' = {}]_vars

\* the sub-entry names navigateTo has built a locator from: subMenuLink is
\* the only sub-entry locator of SideMenuComponent
SubNamesTried == IF subMenuLink = NoLocator THEN {} ELSE {subMenuLink.name}

(***************************************************************************)
(* C24 (as stated): in the compact regime SideMenuComponent.navigateTo     *)
(* tries every supplied sub-entry name in order: once the sub-entry was    *)
(* not seen under its first name, a locator has been built from each of    *)
(* the names supplied, so a sub-entry rendered under its second name only  *)
(* is found and clicked.                                                   *)
(***************************************************************************)
C24_EverySubNameTried ==
    (/\ impl = "SideMenuComponent"
     /\ viewportType = "mobile"
     /\ SubRequested
     /\ subVisible = "false"
     /\ pc = "done") =>
        \A n \in 1..Len(subItemNames.names) :
            subItemNames.names[n] \in SubNamesTried

(***************************************************************************)
(* Vocabulary of the subscriptions properties.                             *)
(***************************************************************************)
Mutations == {"create", "edit", "delete"}
Verifications == {"verifyExists", "verifyNotExists"}

\* the mutations followed by verification n with no other mutation between
LastMutationBefore(n) ==
    {m \in 1..(n - 1) :
        /\ crudLog[m] \in Mutations
        /\ \A k \in (m + 1)..(n - 1) : crudLog[k] \notin Mutations}

\* some entry of kinds stands between entries m and n of the log
Between(m, n, kinds) == \E k \in (m + 1)..(n - 1) : crudLog[k] \in kinds

C28_CheckedRolesAreDataRoles ==
    (/\ crudTest = "editDelete"
     /\ crudLog # <<>>
     /\ crudLog[Len(crudLog)] = "edit") => checked = recB.jobRoles

(***************************************************************************)
(* C29 (as stated): the two viewport classifiers agree on every viewport   *)
(* state: the regime the running implementation has computed is the regime *)
(* SideMenuComponent.getViewportType and utils.getViewportType each give   *)
(* for the page's viewport size, at every width and without a size.        *)
(***************************************************************************)
C29_ClassifiersAgree ==
    pc # "idle" =>
        /\ viewportType = GetViewportType(viewportSize)
        /\ viewportType = UtilsGetViewportType(viewportSize)

(***************************************************************************)
(* C30: the test names generateMenuTestCases gives the checks of           *)
(* MENU_ITEMS are pairwise distinct, and so are the titles of the tests    *)
(* declared from them; in any table two checks get the same test name only *)
(* if they have the same entry name and the same sub-entry label.  A       *)
(* sub-entry labelled like a top-level entry ('Cloud Servers' under        *)
(* 'Reports') gets a name of its own.                                      *)
(***************************************************************************)
C30_TestNamesDistinct ==
    /\ menuPc \in {"generated", "declared", "resolving"} =>
          /\ \A a, b \in 1..Len(testCases) :
                testCases[a].testName = testCases[b].testName =>
                    /\ testCases[a].menuNames[1] = testCases[b].menuNames[1]
                    /\ testCases[a].subItemNames.present
                           = testCases[b].subItemNames.present
                    /\ testCases[a].subItemNames.present =>
                          testCases[a].subItemNames.names[1]
                              = testCases[b].subItemNames.names[1]
          /\ menuTable = MENU_ITEMS =>
                \A a, b \in 1..Len(testCases) :
                    a # b => testCases[a].testName # testCases[b].testName
    /\ (menuPc \in {"declared", "resolving"} /\ menuTable = MENU_ITEMS) =>
          \A a, b \in 1..Len(testTitles) : a # b => testTitles[a] # testTitles[b]

\* the checks of MENU_ITEMS are declared: 30 titles, among them the
\* sub-entry 'Cloud Servers' of 'Reports' next to the checks of the
\* top-level entry 'Cloud Servers'
C30_Witness ==
    /\ menuTable = MENU_ITEMS
    /\ menuPc = "declared"
    /\ Cardinality({testTitles[k] : k \in 1..Len(testTitles)}) = 30
    /\ \E k \in 1..Len(testCases) :
          testCases[k].testName = "Reports > Cloud Servers"
    /\ \E k \in 1..Len(testCases) :
          /\ testCases[k].menuNames[1] = "Cloud Servers"
          /\ testCases[k].subItemNames.present

====
